---------------------------- MODULE Spec2Model ----------------------------
(***************************************************************************)
(* Model of the schedule consistency logic of calendar-modular:            *)
(*   - the calendar page (Calendar.tsx): loadClasses, the overlap          *)
(*     predicate and the warnings panel, handleEventDrop/Resize,           *)
(*     handleHideClass, handleDeleteEvent, handleExport;                   *)
(*   - the visibility handlers and deleteTrack of the Class Catalog page;  *)
(*   - the export service (exportCalendar, getNextDayOfWeek, generateICS   *)
(*     and its escapeText);                                                *)
(*   - the intake of classes (ManualEntry.handleSave, processPDF);         *)
(*   - the store tables class_catalog, events and schedule_tracks.         *)
(*                                                                         *)
(* Specifications.  SpecDetect, SpecExpand, SpecWindow, SpecMalformed,     *)
(* SpecExport, SpecEscape, SpecICS and SpecIntake run one computation      *)
(* (overlap detection, expansion, export conversion, text escaping,        *)
(* document generation, intake) on inputs drawn from bounded sets.  Spec,  *)
(* SpecMove, SpecVisibility, SpecExportPage and SpecCatalog run the        *)
(* handlers of a page as steps interleaved with the answers of the store:  *)
(* every await of a handler ends one step.                                 *)
(*                                                                         *)
(* Time.  A calendar day is a day number; day 0 is Sunday 2023-01-01, so   *)
(* getDay(d) = d % 7 with 0 = Sunday as in JavaScript.  An instant is a    *)
(* number of minutes, day * 1440 + minute of the day.                      *)
(*                                                                         *)
(* Text.  An id is a sequence of one-character strings, so that template   *)
(* literals, Array.sort and Array.join act on characters as they do in     *)
(* the code.  A UUID keeps the shape "hh-h" (hex groups joined by          *)
(* hyphens, the first group longer than one character).  A free text and   *)
(* a generated document are sequences of symbols: one-character strings,   *)
(* and words of the interchange format standing for their characters.      *)
(***************************************************************************)
EXTENDS Integers, Sequences, FiniteSets, TLC

VARIABLES
    classes,    \* store: table class_catalog, a sequence of rows
    flex,       \* store: table events, a sequence of rows
    events,     \* Calendar state: const [events, setEvents]
    date,       \* Calendar state: const [date, setDate]
    view,       \* Calendar state: const [view, setView]
    loading,    \* Calendar state: const [loading, setLoading]
    selected,   \* Calendar state: the open modal's selectedEvent (<<>> when closed)
    loads,      \* loadClasses calls in flight, one record per slot
    writes,     \* store writes in flight (drop, resize, hide, delete)
    exp,        \* the exportCalendar call in flight
    doc,        \* the events handed to generateICS by the last export
    today,      \* the day new Date() falls on
    arg,        \* the argument of a function of the code called on its own
    ret,        \* what that call returned
    schedule_tracks, \* store: table schedule_tracks, a sequence of rows
    tracks,     \* ClassCatalog state: const [tracks, setTracks] (<<>> while not mounted)
    pairs,      \* the overlappingPairs list of the warnings panel
    pdf_uploads, \* store: table pdf_uploads, a sequence of rows in order of created_at
    upload,     \* PDFUpload state: uploading, processing, and where handleUpload stands
    accepted,   \* history: every <<id, start, end>> table events held or took a write of
    lastOp      \* history: the step that led to this state

vars == <<classes, flex, events, date, view, loading, selected, loads, writes,
          exp, doc, today, arg, ret, schedule_tracks, tracks, pairs, accepted,
          pdf_uploads, upload, lastOp>>

----------------------------------------------------------------------------
(* Bounds of the model *)

\* loadClasses calls that may be in flight together
MaxLoads == 2
\* store writes that may be in flight together
MaxWrites == 1
\* occurrences in a list handed to the overlap detector on its own
MaxOccs == 3
\* intervals table events may hold or take a write of over a run
MaxStored == 4
\* first and last day the calendar may be navigated to
DateMin == 14
DateMax == 21

\* minutes in a day
MinutesPerDay == 1440

----------------------------------------------------------------------------
(* Characters and strings *)

\* The characters that occur in ids, in UTF-16 code unit order
Chars == <<"-", "0", "1", "2", "3", "4", "5", "6", "7", "8", "9",
           "F", "M", "R", "S", "T", "U", "W", "X", "a", "b">>

CharCode(c) == CHOOSE i \in 1..Len(Chars) : Chars[i] = c

\* s < t in the order Array.prototype.sort uses for strings
RECURSIVE StrLess(_, _)
StrLess(s, t) ==
    IF t = <<>> THEN FALSE
    ELSE IF s = <<>> THEN TRUE
    ELSE IF Head(s) = Head(t) THEN StrLess(Tail(s), Tail(t))
    ELSE CharCode(Head(s)) < CharCode(Head(t))

Digit(n) == Chars[n + 2]

\* a number below 100 as two digits (padStart(2, "0"))
Dig2(n) == <<Digit(n \div 10), Digit(n % 10)>>

RECURSIVE Flatten(_)
Flatten(ss) == IF ss = <<>> THEN <<>> ELSE Head(ss) \o Flatten(Tail(ss))

\* the elements of a sequence
Range(s) == {s[i] : i \in 1..Len(s)}

----------------------------------------------------------------------------
(* Calendar arithmetic (date-fns) *)

\* lengths of the months January..April 2023
MonthLengths == <<31, 28, 31, 30>>

RECURSIVE MonthStartDay(_)
MonthStartDay(m) == IF m = 1 THEN 0 ELSE MonthStartDay(m - 1) + MonthLengths[m - 1]

MonthOf(d) ==
    CHOOSE m \in 1..Len(MonthLengths) :
        MonthStartDay(m) <= d /\ d < MonthStartDay(m) + MonthLengths[m]

getDay(d) == d % 7

startOfWeek(d) == d - getDay(d)

addWeeks(d, n) == d + 7 * n

startOfMonth(d) == MonthStartDay(MonthOf(d))

endOfMonth(d) == MonthStartDay(MonthOf(d)) + MonthLengths[MonthOf(d)] - 1

\* eachDayOfInterval({start, end}): every day from start to end, both included
eachDayOfInterval(lo, hi) == [i \in 1..(IF hi >= lo THEN hi - lo + 1 ELSE 0) |-> lo + i - 1]

\* Date.prototype.toISOString() of local midnight of day d, "2023-MM-DDT..."
toISOString(d) ==
    <<"2", "0", "2", "3", "-">> \o Dig2(MonthOf(d)) \o <<"-">>
        \o Dig2(d - MonthStartDay(MonthOf(d)) + 1) \o <<"T">>

\* new Date(day).setHours(h, m, 0)
setHours(d, hm) == d * MinutesPerDay + hm[1] * 60 + hm[2]

----------------------------------------------------------------------------
(* Store rows and queries *)

\* the signed-in user (user.id) and another account of the same store
User == "u1"
OtherUser == "u2"

\* select * from class_catalog where user_id = u, without the test on is_hidden
SelectVisibleClasses_All(u) ==
    LET Test(c) == c.user_id = u
    IN  SelectSeq(classes, Test)

\* select * from class_catalog where user_id = u and is_hidden = false
SelectVisibleClasses(u) ==
    LET Test(c) == c.user_id = u /\ c.is_hidden = FALSE
    IN  SelectSeq(classes, Test)

\* select * from events where user_id = u
SelectEvents(u) ==
    LET Test(e) == e.user_id = u
    IN  SelectSeq(flex, Test)

----------------------------------------------------------------------------
(* loadClasses: the expansion window and the conversion to calendar events *)

DayTags == <<"U", "M", "T", "W", "R", "F", "S">>

\* dayMap[day]; -1 stands for undefined
dayMap(day) ==
    IF \E i \in 1..7 : DayTags[i] = day
    THEN (CHOOSE i \in 1..7 : DayTags[i] = day) - 1
    ELSE -1

rangeStart(d, v) ==
    IF v = "week" THEN addWeeks(startOfWeek(d), -2)
    ELSE IF v = "month" THEN startOfMonth(d)
    ELSE addWeeks(d, -1)

\* the week window ending where the current week starts
rangeEnd_WeekStart(d, v) ==
    IF v = "week" THEN startOfWeek(d)
    ELSE IF v = "month" THEN endOfMonth(d)
    ELSE addWeeks(d, 1)

rangeEnd(d, v) ==
    IF v = "week" THEN addWeeks(startOfWeek(d), 3)
    ELSE IF v = "month" THEN endOfMonth(d)
    ELSE addWeeks(d, 1)

\* the object pushed for one class, one entry of its days, one date
FixedOccurrence(classItem, day, currentDate) ==
    [id       |-> classItem.id \o <<"-", day, "-">> \o toISOString(currentDate),
     start    |-> setHours(currentDate, classItem.start_time),
     end      |-> setHours(currentDate, classItem.end_time),
     is_fixed |-> TRUE,
     class_id |-> classItem.id]

\* classItem.days.forEach(day => ...) for one entry of days
DayOccurrences(classItem, day, lo, hi) ==
    IF dayMap(day) # -1
    THEN LET Test(d) == getDay(d) = dayMap(day)
             matching == SelectSeq(eachDayOfInterval(lo, hi), Test)
         IN  [i \in 1..Len(matching) |-> FixedOccurrence(classItem, day, matching[i])]
    ELSE <<>>

ClassOccurrences(classItem, lo, hi) ==
    Flatten([k \in 1..Len(classItem.days) |->
                DayOccurrences(classItem, classItem.days[k], lo, hi)])

\* the object pushed for one row of table events
FlexibleOccurrence(event) ==
    [id       |-> event.id,
     start    |-> event.start_time,
     end      |-> event.end_time,
     is_fixed |-> FALSE,
     class_id |-> <<>>]

\* calendarEvents kept across runs instead of rebuilt by each run
CalendarEvents_Accumulating(cls, flexibleEvents, d, v) ==
    events
    \o Flatten([k \in 1..Len(cls) |->
                ClassOccurrences(cls[k], rangeStart(d, v), rangeEnd(d, v))])
    \o [k \in 1..Len(flexibleEvents) |-> FlexibleOccurrence(flexibleEvents[k])]

\* calendarEvents as loadClasses builds it from the two query results
CalendarEvents(cls, flexibleEvents, d, v) ==
    Flatten([k \in 1..Len(cls) |->
                ClassOccurrences(cls[k], rangeStart(d, v), rangeEnd(d, v))])
    \o [k \in 1..Len(flexibleEvents) |-> FlexibleOccurrence(flexibleEvents[k])]

----------------------------------------------------------------------------
(* Overlap detection and the warnings panel *)

\* the overlap test with closed intervals (<= for <): touching ends overlap
eventsOverlap_Closed(event1, event2) ==
    /\ event1.id # event2.id
    /\ event1.start <= event2.end
    /\ event1.end >= event2.start

\* the overlap test without the comparison of ids
eventsOverlap_NoIdTest(event1, event2) ==
    /\ event1.start < event2.end
    /\ event1.end > event2.start

eventsOverlap(event1, event2) ==
    /\ event1.id # event2.id
    /\ event1.start < event2.end
    /\ event1.end > event2.start

\* events.find for events.filter: only the first overlapping event
getOverlappingEvents_First(event, evs) ==
    LET Test(e) == eventsOverlap(event, e)
        found   == SelectSeq(evs, Test)
    IN  IF found = <<>> THEN <<>> ELSE <<Head(found)>>

getOverlappingEvents(event, evs) ==
    LET Test(e) == eventsOverlap(event, e)
    IN  SelectSeq(evs, Test)

\* the key without the sort: [id1, id2].join('-')
pairKey_Unsorted(id1, id2) == id1 \o <<"-">> \o id2

\* [id1, id2].sort().join('-')
pairKey(id1, id2) ==
    IF StrLess(id2, id1) THEN id2 \o <<"-">> \o id1 ELSE id1 \o <<"-">> \o id2

\* overlaps.forEach(overlap => ...) with the panel's seen set and list in acc
RECURSIVE AddOverlaps(_, _, _)
AddOverlaps(event, overlaps, acc) ==
    IF overlaps = <<>> THEN acc
    ELSE LET overlap == Head(overlaps)
             key     == pairKey(event.id, overlap.id)
         IN  AddOverlaps(event, Tail(overlaps),
                 IF key \in acc.seen THEN acc
                 ELSE [seen |-> acc.seen \cup {key},
                       list |-> Append(acc.list, [event1 |-> event, event2 |-> overlap])])

RECURSIVE ScanEvents(_, _, _)
ScanEvents(rest, evs, acc) ==
    IF rest = <<>> THEN acc
    ELSE ScanEvents(Tail(rest), evs,
             AddOverlaps(Head(rest), getOverlappingEvents(Head(rest), evs), acc))

overlappingPairs(evs) == ScanEvents(evs, evs, [seen |-> {}, list |-> <<>>]).list

----------------------------------------------------------------------------
(* Sample data the specifications draw their inputs from *)

\* primary keys (uuid_generate_v4) of two classes and two personal events
ClassId1 == <<"a", "a", "-", "1">>
ClassId2 == <<"a", "b", "-", "1">>
EventId1 == <<"b", "a", "-", "1">>
EventId2 == <<"b", "a", "-", "2">>

ClassRow(id, user, track, days, st, et, hidden) ==
    [id |-> id, user_id |-> user, track_id |-> track, days |-> days,
     start_time |-> st, end_time |-> et, is_hidden |-> hidden]

EventRow(id, user, st, et) ==
    [id |-> id, user_id |-> user, start_time |-> st, end_time |-> et]

TrackRow(id, user) == [id |-> id, user_id |-> user]

\* schedule_tracks at the start: one track of each account
MainTracks == <<TrackRow("t1", User), TrackRow("t2", OtherUser)>>

\* the step recorded in lastOp: what ran, whether it was aimed at a fixed
\* occurrence, how it ended, and (for a store step) which handler's write it was
Op(kind, fixed, outcome, origin) ==
    [kind |-> kind, fixed |-> fixed, outcome |-> outcome, origin |-> origin]

\* values of the variables a specification does not use
IdleLoads == [s \in 1..MaxLoads |-> [pc |-> "idle"]]
IdleExp == [pc |-> "idle"]
IdleUpload == [pc |-> "idle", uploading |-> FALSE, processing |-> FALSE, own |-> 0]

\* no function has been called on its own
NoRet == [done |-> FALSE]
\* the value a call returned
Ret(value) == [done |-> TRUE, value |-> value]

----------------------------------------------------------------------------
(* SpecDetect: the overlap detector on its own.  The input is any list of  *)
(* at most MaxOccs occurrences in which equal ids mean equal occurrences   *)
(* (ids are primary keys or built from class, day tag and date).           *)

\* a Monday at 09:00, the base instant of the detector's inputs
DetectBase == setHours(15, <<9, 0>>)

\* intervals with start < end: two that touch, and one that overlaps both
DetectIntervals ==
    {<<DetectBase, DetectBase + 60>>, <<DetectBase + 60, DetectBase + 120>>,
     <<DetectBase, DetectBase + 120>>}

\* an interval of zero length, which a personal event may hold
EmptyInterval == <<DetectBase + 60, DetectBase + 60>>

DetectFixedSeeds ==
    {FixedOccurrence(ClassRow(ClassId1, User, "t1", <<"M">>, <<9, 0>>, <<10, 0>>, FALSE), "M", 15),
     FixedOccurrence(ClassRow(ClassId1, User, "t1", <<"M">>, <<9, 0>>, <<10, 0>>, FALSE), "M", 22),
     FixedOccurrence(ClassRow(ClassId2, User, "t1", <<"M">>, <<9, 0>>, <<10, 0>>, FALSE), "M", 15)}

DetectFlexibleSeeds ==
    {FlexibleOccurrence(EventRow(EventId1, User, 0, 0)),
     FlexibleOccurrence(EventRow(EventId2, User, 0, 0))}

DetectOccs ==
    {[o EXCEPT !.start = iv[1], !.end = iv[2]] :
        o \in DetectFixedSeeds \cup DetectFlexibleSeeds, iv \in DetectIntervals}
    \cup {[o EXCEPT !.start = EmptyInterval[1], !.end = EmptyInterval[2]] :
        o \in DetectFlexibleSeeds}

InitDetect ==
    /\ events \in UNION {[1..n -> DetectOccs] : n \in 0..MaxOccs}
    /\ \A i, j \in 1..Len(events) : events[i].id = events[j].id => events[i] = events[j]
    /\ pairs = <<>>
    /\ classes = <<>> /\ flex = <<>>
    /\ date = DateMin /\ view = "week" /\ today = DateMin
    /\ arg = <<>> /\ ret = NoRet
    /\ schedule_tracks = MainTracks /\ tracks = <<>>
    /\ loading = FALSE /\ selected = <<>>
    /\ loads = IdleLoads /\ writes = {} /\ exp = IdleExp /\ doc = <<>>
    /\ accepted = {}
    /\ pdf_uploads = <<>> /\ upload = IdleUpload
    /\ lastOp = Op("input", FALSE, "none", "none")

\* the render of the warnings panel over the events list
Detect ==
    /\ lastOp.kind = "input"
    /\ pairs' = overlappingPairs(events)
    /\ lastOp' = Op("detect", FALSE, "ok", "none")
    /\ UNCHANGED <<classes, flex, events, date, view, loading, selected, loads,
                   writes, exp, doc, today, arg, ret, schedule_tracks, tracks, accepted,
                   pdf_uploads, upload>>

NextDetect == Detect

SpecDetect == InitDetect /\ [][NextDetect]_vars

----------------------------------------------------------------------------
(* Claims about the overlap detector (SpecDetect) *)

\* the half-open test of the data model: [a.start, a.end) meets [b.start, b.end)
HalfOpen(a, b) == a.start < b.end /\ b.start < a.end

\* an unordered pair of occurrences, and the unordered pairs of a conflict list
Unordered(p) == {p.event1, p.event2}
PairSet(ps) == {Unordered(ps[k]) : k \in 1..Len(ps)}

\* every reordering of a list
Reorderings(evs) ==
    {[i \in 1..Len(evs) |-> evs[f[i]]] : f \in Permutations(1..Len(evs))}

\* C3: for two occurrences with different ids and start < end, eventsOverlap
\* is exactly the half-open test a.start < b.end /\ b.start < a.end; it is
\* symmetric for any two occurrences; and two intervals that only touch
\* (a.end = b.start) do not overlap.
C3_HalfOpenOverlap ==
    \A i, j \in 1..Len(events) :
        LET a == events[i]
            b == events[j]
        IN  /\ eventsOverlap(a, b) = eventsOverlap(b, a)
            /\ (a.id # b.id /\ a.start < a.end /\ b.start < b.end) =>
                   /\ eventsOverlap(a, b) = HalfOpen(a, b)
                   /\ a.end = b.start => ~eventsOverlap(a, b)
                   /\ lastOp.kind = "detect" =>
                          (HalfOpen(a, b) <=> {a, b} \in PairSet(pairs))

\* C3 witness: the panel was computed over a list holding two valid
\* occurrences that only touch (not reported) and two that overlap (reported).
C3_Witness ==
    /\ lastOp.kind = "detect"
    /\ \E i, j \in 1..Len(events) :
           /\ events[i].id # events[j].id
           /\ events[i].start < events[i].end
           /\ events[i].end = events[j].start
           /\ events[j].start < events[j].end
           /\ {events[i], events[j]} \notin PairSet(pairs)
    /\ \E i, j \in 1..Len(events) :
           /\ events[i].start < events[i].end /\ events[j].start < events[j].end
           /\ {events[i], events[j]} \in PairSet(pairs)

\* C4: the conflict list of the warnings panel holds every unordered pair of
\* distinct overlapping occurrences exactly once and no other pair, and the
\* key [id1, id2].sort().join('-') is the same for two pairs of distinct
\* occurrences only when they are the same unordered pair.
C4_ConflictListExact ==
    lastOp.kind = "detect" =>
        /\ \A k \in 1..Len(pairs) :
               /\ pairs[k].event1 \in Range(events)
               /\ pairs[k].event2 \in Range(events)
               /\ pairs[k].event1 # pairs[k].event2
               /\ HalfOpen(pairs[k].event1, pairs[k].event2)
        /\ \A a, b \in Range(events) :
               (a # b /\ HalfOpen(a, b)) =>
                   Cardinality({k \in 1..Len(pairs) : Unordered(pairs[k]) = {a, b}}) = 1
        /\ \A a, b, c, d \in Range(events) :
               (a # b /\ c # d /\ pairKey(a.id, b.id) = pairKey(c.id, d.id)) =>
                   {a, b} = {c, d}

\* C4 witness: three occurrences, two of which overlap each other and a third
\* that overlaps neither, give a list of exactly one pair.
C4_Witness ==
    /\ lastOp.kind = "detect"
    /\ Len(events) = 3
    /\ Cardinality(Range(events)) = 3
    /\ Len(pairs) = 1
    /\ HalfOpen(pairs[1].event1, pairs[1].event2)

\* C5: the set of unordered conflict pairs is the same for every reordering
\* of the occurrence list.
C5_OrderIndependent ==
    lastOp.kind = "detect" =>
        \A perm \in Reorderings(events) :
            PairSet(overlappingPairs(perm)) = PairSet(pairs)

\* C5 witness: three pairwise overlapping occurrences, all three pairs found.
C5_Witness ==
    /\ lastOp.kind = "detect"
    /\ Len(events) = 3
    /\ Cardinality(PairSet(pairs)) = 3

----------------------------------------------------------------------------
(* SpecExpand: one loadClasses run on its own.  The store holds one or two *)
(* classes and up to two personal events; class rows are what processPDF   *)
(* and ManualEntry may have inserted (days is stored as given: any order,  *)
(* repeated tags, tags outside the vocabulary, an empty list).             *)

Views == {"week", "day", "agenda", "month"}

DaysOptions == {<<"M", "W">>, <<"M", "M">>, <<"T", "X">>, <<>>}

TimeOptions == {<<<<9, 0>>, <<10, 15>>>>, <<<<10, 0>>, <<9, 30>>>>}

\* rows the first class may be
ExpandRows1 ==
    {ClassRow(ClassId1, User, "t1", days, tm[1], tm[2], hidden) :
        days \in DaysOptions, tm \in TimeOptions, hidden \in BOOLEAN}

\* rows the second class may be: Mondays 09:30-10:30, of either account
ExpandRows2 ==
    {ClassRow(ClassId2, user, "t1", <<"M">>, <<9, 30>>, <<10, 30>>, hidden) :
        user \in {User, OtherUser}, hidden \in BOOLEAN}

\* the query returns rows in no particular order
ExpandStores ==
    {<<r1>> : r1 \in ExpandRows1}
    \cup {<<r1, r2>> : r1 \in ExpandRows1, r2 \in ExpandRows2}
    \cup {<<r2, r1>> : r1 \in ExpandRows1, r2 \in ExpandRows2}

ExpandEvents ==
    {<<>>,
     <<EventRow(EventId1, User, setHours(15, <<9, 0>>), setHours(15, <<10, 0>>))>>,
     <<EventRow(EventId2, OtherUser, setHours(15, <<9, 0>>), setHours(15, <<10, 0>>)),
       EventRow(EventId1, User, setHours(17, <<9, 0>>), setHours(17, <<10, 0>>))>>}

InitExpand ==
    /\ classes \in ExpandStores
    /\ flex \in ExpandEvents
    /\ date \in DateMin..DateMax
    /\ view \in Views
    /\ events = <<>> /\ pairs = <<>>
    /\ today = DateMin
    /\ arg = <<>> /\ ret = NoRet
    /\ schedule_tracks = MainTracks /\ tracks = <<>>
    /\ loading = TRUE /\ selected = <<>>
    /\ loads = IdleLoads /\ writes = {} /\ exp = IdleExp /\ doc = <<>>
    /\ accepted = {}
    /\ pdf_uploads = <<>> /\ upload = IdleUpload
    /\ lastOp = Op("input", FALSE, "none", "none")

\* loadClasses from its two queries to setEvents, with nothing in between
Expand ==
    /\ lastOp.kind = "input"
    /\ events' = CalendarEvents(SelectVisibleClasses(User), SelectEvents(User), date, view)
    /\ loading' = FALSE
    /\ lastOp' = Op("load", FALSE, "ok", "none")
    /\ UNCHANGED <<classes, flex, date, view, selected, loads, writes, exp, doc,
                   today, arg, ret, schedule_tracks, tracks, pairs, accepted,
                   pdf_uploads, upload>>

NextExpand == Expand

SpecExpand == InitExpand /\ [][NextExpand]_vars

----------------------------------------------------------------------------
(* Claims about the expansion (SpecExpand) *)

\* the days any window of the model may hold
AllDays == 0..(DateMax + 35)

\* the occurrences of class c in the events list that fall on day d
OccurrencesOn(c, d) ==
    {i \in 1..Len(events) :
        /\ events[i].is_fixed
        /\ events[i].class_id = c.id
        /\ events[i].start \div MinutesPerDay = d}

\* C6: for every visible class and every day d of the inclusive window
\* [rangeStart, rangeEnd] whose weekday is in the class's days, loadClasses
\* emits exactly one occurrence, from d at start_time to d at end_time, and
\* it emits no occurrence of the class on any other day.
C6_ExpansionCoverage ==
    lastOp.kind = "load" =>
        \A k \in 1..Len(classes) :
            LET c == classes[k]
            IN  (c.user_id = User /\ ~c.is_hidden) =>
                    \A d \in AllDays :
                        IF /\ rangeStart(date, view) <= d
                           /\ d <= rangeEnd(date, view)
                           /\ \E t \in Range(c.days) : dayMap(t) = getDay(d)
                        THEN /\ Cardinality(OccurrencesOn(c, d)) = 1
                             /\ \A i \in OccurrencesOn(c, d) :
                                    /\ events[i].start = setHours(d, c.start_time)
                                    /\ events[i].end = setHours(d, c.end_time)
                        ELSE OccurrencesOn(c, d) = {}

\* C7: no two occurrences of the events list one loadClasses run produces
\* share an id.
C7_UniqueIds ==
    lastOp.kind = "load" =>
        \A i, j \in 1..Len(events) : i # j => events[i].id # events[j].id

----------------------------------------------------------------------------
(* exportCalendar: the events handed to generateICS *)

\* select * from class_catalog where user_id = userId, without the test on
\* is_hidden
ExportSelectClasses_All(userId) ==
    LET Test(c) == c.user_id = userId
    IN  SelectSeq(classes, Test)

\* select * from class_catalog where user_id = userId and is_hidden = false
ExportSelectClasses(userId) ==
    LET Test(c) == c.user_id = userId /\ c.is_hidden = FALSE
    IN  SelectSeq(classes, Test)

\* select * from events where user_id = userId
ExportSelectEvents(userId) ==
    LET Test(e) == e.user_id = userId
    IN  SelectSeq(flex, Test)

\* (targetDay - currentDay + 7) % 7 || 7, then setDate(getDate() + daysToAdd);
\* for a dayCode outside the table targetDay is undefined, the sum is NaN and
\* NaN || 7 is 7
getNextDayOfWeek(d, dayCode) ==
    LET targetDay  == dayMap(dayCode)
        currentDay == getDay(d)
        rem        == (targetDay - currentDay + 7) % 7
        daysToAdd  == IF targetDay = -1 THEN 7 ELSE IF rem = 0 THEN 7 ELSE rem
    IN  d + daysToAdd

\* the object pushed for one class and one entry of its days
ExportClassEvent(classItem, day, now) ==
    [id    |-> classItem.id \o <<"-", day>>,
     start |-> setHours(getNextDayOfWeek(now, day), classItem.start_time),
     end   |-> setHours(getNextDayOfWeek(now, day), classItem.end_time)]

\* the object pushed for one row of table events
ExportPersonalEvent(event) ==
    [id |-> event.id, start |-> event.start_time, end |-> event.end_time]

\* calendarEvents as exportCalendar builds it from the two query results
ExportEvents(cls, evs, now) ==
    Flatten([k \in 1..Len(cls) |->
                [j \in 1..Len(cls[k].days) |->
                    ExportClassEvent(cls[k], cls[k].days[j], now)]])
    \o [k \in 1..Len(evs) |-> ExportPersonalEvent(evs[k])]

----------------------------------------------------------------------------
(* SpecExport: one exportCalendar run on its own, over the stores of       *)
(* SpecExpand and every weekday the export may run on.                     *)

InitExport ==
    /\ classes \in ExpandStores
    /\ flex \in ExpandEvents
    /\ today \in DateMin..(DateMin + 6)
    /\ arg = <<>> /\ ret = NoRet
    /\ schedule_tracks = MainTracks /\ tracks = <<>>
    /\ date = DateMin /\ view = "week"
    /\ events = <<>> /\ pairs = <<>>
    /\ loading = FALSE /\ selected = <<>>
    /\ loads = IdleLoads /\ writes = {} /\ exp = IdleExp /\ doc = <<>>
    /\ accepted = {}
    /\ pdf_uploads = <<>> /\ upload = IdleUpload
    /\ lastOp = Op("input", FALSE, "none", "none")

\* exportCalendar from its two queries to generateICS, with nothing in between
Export ==
    /\ lastOp.kind = "input"
    /\ doc' = ExportEvents(ExportSelectClasses(User), ExportSelectEvents(User), today)
    /\ lastOp' = Op("export", FALSE, "ok", "none")
    /\ UNCHANGED <<classes, flex, events, date, view, loading, selected, loads,
                   writes, exp, today, arg, ret, schedule_tracks, tracks, pairs, accepted,
                   pdf_uploads, upload>>

NextExport == Export

SpecExport == InitExport /\ [][NextExport]_vars

----------------------------------------------------------------------------
(* Claims about the export of classes (SpecExport) *)

\* the class an exported event was built for (the id is `${class id}-${day}`,
\* a personal event carries its own UUID)
DocFromClass(x, c) == Len(x.id) = Len(c.id) + 2 /\ SubSeq(x.id, 1, Len(c.id)) = c.id

\* the exported events of class c that start on day d
ExportedOn(c, d) ==
    {i \in 1..Len(doc) : DocFromClass(doc[i], c) /\ doc[i].start \div MinutesPerDay = d}

\* C10: each visible class of the exporting user contributes exactly one
\* event per distinct weekday of its days, dated on the one day among the
\* next 7 (today + 1 .. today + 7) that has this weekday, and no other event.
C10_OneEventPerWeekday ==
    lastOp.kind = "export" =>
        \A k \in 1..Len(classes) :
            LET c == classes[k]
            IN  (c.user_id = User /\ ~c.is_hidden) =>
                    \A d \in AllDays :
                        IF /\ today < d /\ d <= today + 7
                           /\ \E t \in Range(c.days) : dayMap(t) = getDay(d)
                        THEN /\ Cardinality(ExportedOn(c, d)) = 1
                             /\ \A i \in ExportedOn(c, d) :
                                    /\ doc[i].start = setHours(d, c.start_time)
                                    /\ doc[i].end = setHours(d, c.end_time)
                        ELSE ExportedOn(c, d) = {}

----------------------------------------------------------------------------
(* The calendar page over a store that the Class Catalog page (in another  *)
(* tab) may write to at any moment: sample data, Init and the actions.     *)

ClassId3 == <<"b", "b", "-", "1">>

\* class_catalog at the start: two visible classes of the user in one track
\* and a class of another account
MainClasses ==
    <<ClassRow(ClassId1, User, "t1", <<"M", "W">>, <<9, 0>>, <<10, 15>>, FALSE),
      ClassRow(ClassId2, User, "t1", <<"M">>, <<9, 30>>, <<10, 30>>, FALSE),
      ClassRow(ClassId3, OtherUser, "t2", <<"M">>, <<9, 0>>, <<10, 0>>, FALSE)>>

\* events at the start: one personal event of the user, one of the other account
MainEvents ==
    <<EventRow(EventId1, User, DetectBase, DetectBase + 60),
      EventRow(EventId2, OtherUser, DetectBase, DetectBase + 60)>>

\* <<start, end>> a drop may propose: a later slot, and one that ends before
\* it starts (the handler checks neither)
DropProposals == {<<DetectBase + 30, DetectBase + 90>>, <<DetectBase + 90, DetectBase + 30>>}

\* <<start, end>> a resize of event may propose: the start kept, the end moved
ResizeProposals(event) == {<<event.start, DetectBase + 90>>}

\* views={['week', 'day', 'agenda']}
UiViews == {"week", "day", "agenda"}

\* the <<id, start, end>> of the rows of table events
Intervals(rows) == {<<rows[k].id, rows[k].start_time, rows[k].end_time>> : k \in 1..Len(rows)}

\* a loadClasses call in flight: where it is, the date and view of the render
\* whose closure it runs in
LoadStarted(d, v) == [pc |-> "classes", date |-> d, view |-> v]

FreeSlots == {s \in 1..MaxLoads : loads[s].pc = "idle"}

\* loads with the call started in the lowest free slot
StartLoad(d, v) ==
    LET s == CHOOSE x \in FreeSlots : \A y \in FreeSlots : x <= y
    IN  [loads EXCEPT ![s] = LoadStarted(d, v)]

\* loads after a write to class_catalog: a call that has read the table
\* already no longer holds its current rows
MarkStale(lds) ==
    [s \in 1..MaxLoads |->
        IF lds[s].pc \in {"events", "done"} THEN [lds[s] EXCEPT !.fresh = FALSE]
        ELSE lds[s]]

\* the page shows the calendar (not "Loading calendar...") and no modal
\* covers it
CalendarShown == ~loading /\ selected = <<>>

Init ==
    /\ classes = MainClasses
    /\ flex = MainEvents
    /\ events = <<>>
    /\ date = DateMin /\ view = "week"
    /\ loading = TRUE
    /\ selected = <<>>
    /\ loads = [IdleLoads EXCEPT ![1] = LoadStarted(DateMin, "week")]
    /\ writes = {}
    /\ exp = IdleExp
    /\ doc = <<>>
    /\ today = DateMin
    /\ arg = <<>> /\ ret = NoRet
    /\ schedule_tracks = MainTracks /\ tracks = <<>>
    /\ pairs = <<>>
    /\ accepted = Intervals(MainEvents)
    /\ pdf_uploads = <<>> /\ upload = IdleUpload
    /\ lastOp = Op("init", FALSE, "none", "none")

\* the previous / next buttons: setDate, then the effect runs loadClasses
Navigate ==
    \E dir \in {-1, 1} :
        LET newDate == date + dir * (IF view = "week" THEN 7 ELSE 1)
        IN  /\ CalendarShown
            /\ FreeSlots # {}
            /\ newDate \in DateMin..DateMax
            /\ date' = newDate
            /\ loads' = StartLoad(newDate, view)
            /\ loading' = TRUE
            /\ lastOp' = Op("navigate", FALSE, "ok", "none")
            /\ UNCHANGED <<classes, flex, events, view, selected, writes, exp, doc,
                           today, arg, ret, schedule_tracks, tracks, pairs, accepted,
                   pdf_uploads, upload>>

\* the Day by Day / Week buttons and the toolbar: setView, then the effect
ChangeView ==
    \E v \in UiViews \ {view} :
        /\ CalendarShown
        /\ FreeSlots # {}
        /\ view' = v
        /\ loads' = StartLoad(date, v)
        /\ loading' = TRUE
        /\ lastOp' = Op("view", FALSE, "ok", "none")
        /\ UNCHANGED <<classes, flex, events, date, selected, writes, exp, doc,
                       today, arg, ret, schedule_tracks, tracks, pairs, accepted,
                   pdf_uploads, upload>>

\* loadClasses: the class_catalog query is answered
LoadReadClasses ==
    \E s \in 1..MaxLoads :
        /\ loads[s].pc = "classes"
        /\ loads' = [loads EXCEPT ![s] =
                        [pc |-> "events", date |-> loads[s].date, view |-> loads[s].view,
                         cls |-> SelectVisibleClasses(User), fresh |-> TRUE]]
        /\ lastOp' = Op("loadClasses", FALSE, "ok", "none")
        /\ UNCHANGED <<classes, flex, events, date, view, loading, selected, writes,
                       exp, doc, today, arg, ret, schedule_tracks, tracks, pairs, accepted,
                   pdf_uploads, upload>>

\* loadClasses: the events query is answered
LoadReadEvents ==
    \E s \in 1..MaxLoads :
        /\ loads[s].pc = "events"
        /\ loads' = [loads EXCEPT ![s] =
                        [pc |-> "done", date |-> loads[s].date, view |-> loads[s].view,
                         cls |-> loads[s].cls, fresh |-> loads[s].fresh,
                         evs |-> SelectEvents(User)]]
        /\ lastOp' = Op("loadEvents", FALSE, "ok", "none")
        /\ UNCHANGED <<classes, flex, events, date, view, loading, selected, writes,
                       exp, doc, today, arg, ret, schedule_tracks, tracks, pairs, accepted,
                   pdf_uploads, upload>>

\* loadClasses: the conversion, setEvents and, in finally, setLoading(false)
LoadDone ==
    \E s \in 1..MaxLoads :
        /\ loads[s].pc = "done"
        /\ events' = CalendarEvents(loads[s].cls, loads[s].evs, loads[s].date, loads[s].view)
        /\ pairs' = overlappingPairs(events')
        /\ loading' = FALSE
        /\ loads' = [loads EXCEPT ![s] = [pc |-> "idle"]]
        /\ lastOp' = Op("load", FALSE, "ok", "none")
        /\ UNCHANGED <<classes, flex, date, view, selected, writes, exp, doc, today, arg, ret, schedule_tracks, tracks,
                       accepted,
                   pdf_uploads, upload>>

\* loadClasses: a query returns an error; catch logs it, finally clears loading
LoadFail ==
    \E s \in 1..MaxLoads :
        /\ loads[s].pc \in {"classes", "events"}
        /\ loading' = FALSE
        /\ loads' = [loads EXCEPT ![s] = [pc |-> "idle"]]
        /\ lastOp' = Op("load", FALSE, "failed", "none")
        /\ UNCHANGED <<classes, flex, events, date, view, selected, writes, exp, doc,
                       today, arg, ret, schedule_tracks, tracks, pairs, accepted,
                   pdf_uploads, upload>>


\* event.resource.is_fixed never true: the handlers' guard left out
isFixed_Never(event) == FALSE

\* the handlers' guard turning every occurrence away
isFixed_Always(event) == TRUE

\* the test handleEventDrop and handleEventResize open with
isFixed(event) == event.is_fixed

\* handleEventDrop / handleEventResize up to the await: a fixed occurrence is
\* turned away with an alert, any other has its update sent to the store.
\* The handlers are run for every occurrence of the list, draggable or not.
\* They are memoised on [user]: the loadClasses they call on failure is the
\* one of the first render, with the date and view the page opened on.
HandleMove(kind, event, start, end) ==
    /\ CalendarShown
    /\ IF isFixed(event)
       THEN /\ lastOp' = Op(kind, event.is_fixed, "rejected", "none")
            /\ UNCHANGED writes
       ELSE /\ Cardinality(writes) < MaxWrites
            /\ Cardinality(accepted) < MaxStored
            /\ writes' = writes \cup
                   {[kind |-> kind, pc |-> "sent", id |-> event.id,
                     start |-> start, end |-> end, date |-> DateMin, view |-> "week"]}
            /\ lastOp' = Op(kind, event.is_fixed, "sent", "none")
    /\ UNCHANGED <<classes, flex, events, date, view, loading, selected, loads,
                   exp, doc, today, arg, ret, schedule_tracks, tracks, pairs, accepted,
                   pdf_uploads, upload>>

handleEventDrop ==
    \E i \in 1..Len(events) : \E p \in DropProposals :
        HandleMove("drop", events[i], p[1], p[2])

handleEventResize ==
    \E i \in 1..Len(events) : \E p \in ResizeProposals(events[i]) :
        HandleMove("resize", events[i], p[1], p[2])

\* what the modal's handlers read of selectedEvent: resource.is_fixed, and
\* resource.class_id of a fixed occurrence or id of a personal event (the id
\* of a fixed occurrence is only logged)
Selection(event) ==
    [is_fixed |-> event.is_fixed,
     class_id |-> event.class_id,
     id       |-> IF event.is_fixed THEN <<>> ELSE event.id]

\* handleSelectEvent: the modal opens on the occurrence
handleSelectEvent ==
    \E i \in 1..Len(events) :
        /\ CalendarShown
        /\ selected' = <<Selection(events[i])>>
        /\ lastOp' = Op("select", events[i].is_fixed, "ok", "none")
        /\ UNCHANGED <<classes, flex, events, date, view, loading, loads, writes,
                       exp, doc, today, arg, ret, schedule_tracks, tracks, pairs, accepted,
                   pdf_uploads, upload>>

\* a click beside the modal closes it (selectedEvent is read only while the
\* modal is open, so a closed modal is modelled as no selection)
CloseModal ==
    /\ ~loading
    /\ selected # <<>>
    /\ selected' = <<>>
    /\ lastOp' = Op("close", FALSE, "ok", "none")
    /\ UNCHANGED <<classes, flex, events, date, view, loading, loads, writes,
                   exp, doc, today, arg, ret, schedule_tracks, tracks, pairs, accepted,
                   pdf_uploads, upload>>

\* handleHideClass up to the await: the update of is_hidden is sent
handleHideClass ==
    /\ ~loading
    /\ selected # <<>>
    /\ selected[1].is_fixed
    /\ Cardinality(writes) < MaxWrites
    /\ writes' = writes \cup
           {[kind |-> "hide", pc |-> "sent", id |-> selected[1].class_id,
             start |-> 0, end |-> 0, date |-> date, view |-> view]}
    /\ lastOp' = Op("hide", TRUE, "sent", "none")
    /\ UNCHANGED <<classes, flex, events, date, view, loading, selected, loads,
                   exp, doc, today, arg, ret, schedule_tracks, tracks, pairs, accepted,
                   pdf_uploads, upload>>

\* handleDeleteEvent up to the await: the delete is sent
handleDeleteEvent ==
    /\ ~loading
    /\ selected # <<>>
    /\ ~selected[1].is_fixed
    /\ Cardinality(writes) < MaxWrites
    /\ writes' = writes \cup
           {[kind |-> "delete", pc |-> "sent", id |-> selected[1].id,
             start |-> 0, end |-> 0, date |-> date, view |-> view]}
    /\ lastOp' = Op("delete", FALSE, "sent", "none")
    /\ UNCHANGED <<classes, flex, events, date, view, loading, selected, loads,
                   exp, doc, today, arg, ret, schedule_tracks, tracks, pairs, accepted,
                   pdf_uploads, upload>>

\* update events set start_time, end_time where id = w.id
UpdateEvent(rows, w) ==
    [k \in 1..Len(rows) |->
        IF rows[k].id = w.id
        THEN [rows[k] EXCEPT !.start_time = w.start, !.end_time = w.end]
        ELSE rows[k]]

\* update class_catalog set is_hidden = hidden where id in ids
SetHidden(rows, ids, hidden) ==
    [k \in 1..Len(rows) |->
        IF rows[k].id \in ids THEN [rows[k] EXCEPT !.is_hidden = hidden] ELSE rows[k]]

\* delete from class_catalog for update ... set is_hidden = true
HideClass_Delete(rows, w, u) ==
    LET Keep(c) == ~(c.id = w.id /\ c.user_id = u)
    IN  SelectSeq(rows, Keep)

\* update class_catalog set is_hidden = true where id = w.id and user_id = u
HideClass(rows, w, u) ==
    [k \in 1..Len(rows) |->
        IF rows[k].id = w.id /\ rows[k].user_id = u
        THEN [rows[k] EXCEPT !.is_hidden = TRUE]
        ELSE rows[k]]

\* delete from events where id = w.id and user_id = u
DeleteEvent(rows, w, u) ==
    LET Keep(e) == ~(e.id = w.id /\ e.user_id = u)
    IN  SelectSeq(rows, Keep)

\* the store carries out a write of the page
StoreApply ==
    \E w \in writes :
        /\ w.pc = "sent"
        /\ writes' = (writes \ {w}) \cup {[w EXCEPT !.pc = "ok"]}
        /\ flex' = IF w.kind \in {"drop", "resize"} THEN UpdateEvent(flex, w)
                   ELSE IF w.kind = "delete" THEN DeleteEvent(flex, w, User)
                   ELSE flex
        /\ classes' = IF w.kind = "hide" THEN HideClass(classes, w, User) ELSE classes
        /\ loads' = IF classes' # classes THEN MarkStale(loads) ELSE loads
        /\ accepted' = IF w.kind \in {"drop", "resize"}
                       THEN accepted \cup {<<w.id, w.start, w.end>>}
                       ELSE accepted
        /\ lastOp' = Op("store", FALSE, "ok", w.kind)
        /\ UNCHANGED <<events, date, view, loading, selected, exp, doc, today, arg, ret, schedule_tracks, tracks, pairs,
                   pdf_uploads, upload>>

\* the store answers a write of the page with an error and changes nothing
StoreReject ==
    \E w \in writes :
        /\ w.pc = "sent"
        /\ writes' = (writes \ {w}) \cup {[w EXCEPT !.pc = "error"]}
        /\ lastOp' = Op("store", FALSE, "error", w.kind)
        /\ UNCHANGED <<classes, flex, events, date, view, loading, selected, loads,
                       exp, doc, today, arg, ret, schedule_tracks, tracks, pairs, accepted,
                   pdf_uploads, upload>>

\* the local list after a failed move written into it all the same
EventsAfterMove_Always(w, evs) ==
    [k \in 1..Len(evs) |->
        IF evs[k].id = w.id THEN [evs[k] EXCEPT !.start = w.start, !.end = w.end]
        ELSE evs[k]]

\* the local list once the store has answered a move: setEvents(prevEvents.map)
\* after a success, nothing after an error
EventsAfterMove(w, evs) ==
    IF w.pc = "ok"
    THEN [k \in 1..Len(evs) |->
             IF evs[k].id = w.id THEN [evs[k] EXCEPT !.start = w.start, !.end = w.end]
             ELSE evs[k]]
    ELSE evs

\* handleEventDrop / handleEventResize after the await: the local update, or
\* the alert and loadClasses() of the handler's closure
MoveDone ==
    \E w \in writes :
        /\ w.kind \in {"drop", "resize"}
        /\ w.pc \in {"ok", "error"}
        /\ w.pc = "error" => FreeSlots # {}
        /\ writes' = writes \ {w}
        /\ events' = EventsAfterMove(w, events)
        /\ pairs' = IF w.pc = "ok" THEN overlappingPairs(events') ELSE pairs
        /\ loads' = IF w.pc = "error" THEN StartLoad(w.date, w.view) ELSE loads
        /\ loading' = IF w.pc = "error" THEN TRUE ELSE loading
        /\ lastOp' = Op("moveDone", FALSE, w.pc, w.kind)
        /\ UNCHANGED <<classes, flex, date, view, selected, exp, doc, today, arg, ret, schedule_tracks, tracks, accepted,
                   pdf_uploads, upload>>

\* handleHideClass / handleDeleteEvent after the await: the modal is closed
\* and loadClasses() runs, or the alert
ModalWriteDone ==
    \E w \in writes :
        /\ w.kind \in {"hide", "delete"}
        /\ w.pc \in {"ok", "error"}
        /\ w.pc = "ok" => FreeSlots # {}
        /\ writes' = writes \ {w}
        /\ selected' = IF w.pc = "ok" THEN <<>> ELSE selected
        /\ loads' = IF w.pc = "ok" THEN StartLoad(w.date, w.view) ELSE loads
        /\ loading' = IF w.pc = "ok" THEN TRUE ELSE loading
        /\ lastOp' = Op("modalDone", w.kind = "hide", w.pc, w.kind)
        /\ UNCHANGED <<classes, flex, events, date, view, exp, doc, today, arg, ret, schedule_tracks, tracks, pairs,
                       accepted,
                   pdf_uploads, upload>>


\* the ids of the user's classes in one track, as the catalog lists them
TrackClassIds(u, track) ==
    {classes[k].id : k \in {j \in 1..Len(classes) :
                                classes[j].user_id = u /\ classes[j].track_id = track}}

\* Class Catalog, toggleVisibility(classId, currentStatus): is_hidden becomes
\* !currentStatus, currentStatus being what the catalog last loaded
toggleVisibility ==
    \E classId \in TrackClassIds(User, "t1") : \E currentStatus \in BOOLEAN :
        /\ classes' = SetHidden(classes, {classId}, ~currentStatus)
        /\ classes' # classes
        /\ loads' = MarkStale(loads)
        /\ lastOp' = Op("toggleVisibility", TRUE, "ok", "catalog")
        /\ UNCHANGED <<flex, events, date, view, loading, selected, writes, exp, doc,
                       today, arg, ret, schedule_tracks, tracks, pairs, accepted,
                   pdf_uploads, upload>>

\* Class Catalog, hideAllInTrack(track): track.classes is the track's classes
\* that pass the search box
hideAllInTrack ==
    \E classIds \in SUBSET TrackClassIds(User, "t1") :
        /\ classIds # {}
        /\ classes' = SetHidden(classes, classIds, TRUE)
        /\ classes' # classes
        /\ loads' = MarkStale(loads)
        /\ lastOp' = Op("hideAllInTrack", TRUE, "ok", "catalog")
        /\ UNCHANGED <<flex, events, date, view, loading, selected, writes, exp, doc,
                       today, arg, ret, schedule_tracks, tracks, pairs, accepted,
                   pdf_uploads, upload>>

\* Class Catalog, showAllInTrack(track)
showAllInTrack ==
    \E classIds \in SUBSET TrackClassIds(User, "t1") :
        /\ classIds # {}
        /\ classes' = SetHidden(classes, classIds, FALSE)
        /\ classes' # classes
        /\ loads' = MarkStale(loads)
        /\ lastOp' = Op("showAllInTrack", TRUE, "ok", "catalog")
        /\ UNCHANGED <<flex, events, date, view, loading, selected, writes, exp, doc,
                       today, arg, ret, schedule_tracks, tracks, pairs, accepted,
                   pdf_uploads, upload>>

\* handleExport: an export button (disabled while exporting or with an empty
\* events list) starts exportCalendar
handleExport ==
    /\ CalendarShown
    /\ exp.pc = "idle"
    /\ Len(events) # 0
    /\ exp' = [pc |-> "classes"]
    /\ lastOp' = Op("exportStart", FALSE, "ok", "none")
    /\ UNCHANGED <<classes, flex, events, date, view, loading, selected, loads,
                   writes, doc, today, arg, ret, schedule_tracks, tracks, pairs, accepted,
                   pdf_uploads, upload>>

\* exportCalendar: the class_catalog query is answered
ExportReadClasses ==
    /\ exp.pc = "classes"
    /\ exp' = [pc |-> "events", cls |-> ExportSelectClasses(User)]
    /\ lastOp' = Op("exportClasses", FALSE, "ok", "none")
    /\ UNCHANGED <<classes, flex, events, date, view, loading, selected, loads,
                   writes, doc, today, arg, ret, schedule_tracks, tracks, pairs, accepted,
                   pdf_uploads, upload>>

\* exportCalendar: the events query is answered
ExportReadEvents ==
    /\ exp.pc = "events"
    /\ exp' = [pc |-> "build", cls |-> exp.cls, evs |-> ExportSelectEvents(User)]
    /\ lastOp' = Op("exportEvents", FALSE, "ok", "none")
    /\ UNCHANGED <<classes, flex, events, date, view, loading, selected, loads,
                   writes, doc, today, arg, ret, schedule_tracks, tracks, pairs, accepted,
                   pdf_uploads, upload>>

\* exportCalendar: the conversion and generateICS over the result
ExportDone ==
    /\ exp.pc = "build"
    /\ doc' = ExportEvents(exp.cls, exp.evs, today)
    /\ exp' = IdleExp
    /\ lastOp' = Op("export", FALSE, "ok", "none")
    /\ UNCHANGED <<classes, flex, events, date, view, loading, selected, loads,
                   writes, today, arg, ret, schedule_tracks, tracks, pairs, accepted,
                   pdf_uploads, upload>>

\* exportCalendar: a query returns an error, handleExport alerts
ExportFail ==
    /\ exp.pc \in {"classes", "events"}
    /\ exp' = IdleExp
    /\ lastOp' = Op("export", FALSE, "failed", "none")
    /\ UNCHANGED <<classes, flex, events, date, view, loading, selected, loads,
                   writes, doc, today, arg, ret, schedule_tracks, tracks, pairs, accepted,
                   pdf_uploads, upload>>

----------------------------------------------------------------------------
(* The specifications of the calendar page.  Each one lets the handlers of *)
(* one part of the page run in any order and any interleaving with the     *)
(* answers of the store.                                                   *)

\* Spec: the planning canvas: loads, navigation by date, drops and resizes
Next ==
    \/ Navigate
    \/ LoadReadClasses
    \/ LoadReadEvents
    \/ LoadDone
    \/ LoadFail
    \/ handleEventDrop
    \/ handleEventResize
    \/ StoreApply
    \/ StoreReject
    \/ MoveDone

Spec == Init /\ [][Next]_vars

\* SpecVisibility: hiding from the modal, the catalog's visibility handlers
\* in another tab, and reloads by navigation and view change
NextVisibility ==
    \/ Navigate
    \/ ChangeView
    \/ LoadReadClasses
    \/ LoadReadEvents
    \/ LoadDone
    \/ LoadFail
    \/ handleSelectEvent
    \/ handleHideClass
    \/ StoreApply
    \/ StoreReject
    \/ ModalWriteDone
    \/ toggleVisibility
    \/ hideAllInTrack
    \/ showAllInTrack

SpecVisibility == Init /\ [][NextVisibility]_vars

\* SpecExportPage: the export buttons, with hides and deletes from the modal
\* and the catalog's toggle in another tab
NextExportPage ==
    \/ LoadReadClasses
    \/ LoadReadEvents
    \/ LoadDone
    \/ LoadFail
    \/ handleSelectEvent
    \/ CloseModal
    \/ handleHideClass
    \/ handleDeleteEvent
    \/ StoreApply
    \/ StoreReject
    \/ ModalWriteDone
    \/ toggleVisibility
    \/ handleExport
    \/ ExportReadClasses
    \/ ExportReadEvents
    \/ ExportDone
    \/ ExportFail

SpecExportPage == Init /\ [][NextExportPage]_vars


----------------------------------------------------------------------------
(* Claims about drops and resizes (Spec) *)

\* the row of class_catalog a fixed occurrence was built from
SourceClass(e) == CHOOSE k \in 1..Len(classes) : classes[k].id = e.class_id

\* every fixed occurrence of the local list sits where its class puts it
FixedAsStored ==
    \A i \in 1..Len(events) :
        events[i].is_fixed =>
            /\ events[i].start =
                   setHours(events[i].start \div MinutesPerDay, classes[SourceClass(events[i])].start_time)
            /\ events[i].end =
                   setHours(events[i].start \div MinutesPerDay, classes[SourceClass(events[i])].end_time)

\* a step that ran a drop or resize handler on a fixed occurrence
FixedMoveStep == lastOp'.kind \in {"drop", "resize"} /\ lastOp'.fixed

\* C1: a drop or resize of an occurrence built from a fixed block, whatever
\* the proposed interval, is rejected: no update is sent to the store, the
\* store and the local events list stay as they were, and in every reachable
\* state the fixed occurrences sit at their class's times.
C1_FixedImmutable ==
    /\ [][FixedMoveStep =>
             /\ lastOp'.outcome = "rejected"
             /\ UNCHANGED <<classes, flex, events, writes, accepted>>]_vars
    /\ []FixedAsStored

\* C1 witness: a resize of a fixed occurrence has just been rejected while the
\* list shows fixed occurrences and the personal event already moved.
C1_Witness ==
    /\ lastOp = Op("resize", TRUE, "rejected", "none")
    /\ \E i \in 1..Len(events) : events[i].is_fixed
    /\ \E i \in 1..Len(events) :
           ~events[i].is_fixed /\ <<events[i].id, events[i].start, events[i].end>> \notin Intervals(MainEvents)

\* a step in which a move was rejected, its write failed, or the handler
\* dealt with the failure
RefusedMoveStep ==
    \/ lastOp'.kind \in {"drop", "resize"} /\ lastOp'.outcome = "rejected"
    \/ lastOp'.kind = "store" /\ lastOp'.outcome = "error"
    \/ lastOp'.kind = "moveDone" /\ lastOp'.outcome = "error"

\* the local list shows, for a personal event, only intervals the store held
\* or took a write of
NoPhantomInterval ==
    \A i \in 1..Len(events) :
        ~events[i].is_fixed =>
            <<events[i].id, events[i].start, events[i].end>> \in accepted

\* C2: a rejected or failed move leaves stored start and end both as they
\* were and the local list as it was; the store never changes one of the two
\* columns of a row where the write asked for both; and the local list never
\* shows for a personal event an interval the store did not take.
C2_NoPartialMutation ==
    /\ [][/\ RefusedMoveStep => UNCHANGED <<classes, flex, events, pairs, accepted>>
          /\ \A k \in 1..Len(flex) :
                 (Len(flex') = Len(flex) /\ flex'[k] # flex[k]) =>
                     \E w \in writes :
                         /\ w.id = flex[k].id
                         /\ flex'[k].start_time = w.start
                         /\ flex'[k].end_time = w.end]_vars
    /\ []NoPhantomInterval

\* C2 witness: the store has refused a drop of the personal event, the handler
\* has alerted and started its reload, and both the stored row and the local
\* occurrence still hold the interval from before the attempt.
C2_Witness ==
    /\ lastOp = Op("moveDone", FALSE, "error", "drop")
    /\ loading
    /\ flex = MainEvents
    /\ \E i \in 1..Len(events) :
           /\ events[i].id = EventId1
           /\ events[i].start = MainEvents[1].start_time
           /\ events[i].end = MainEvents[1].end_time

----------------------------------------------------------------------------
(* Claims about hidden classes (SpecVisibility, SpecExportPage) *)

\* no occurrence of the local list comes from a class hidden in the store
NoHiddenShown ==
    \A i \in 1..Len(events) :
        events[i].is_fixed =>
            \A k \in 1..Len(classes) :
                classes[k].id = events[i].class_id => ~classes[k].is_hidden

\* a step in which a loadClasses call that read class_catalog after the last
\* write to it completes with setEvents
FreshLoadDone ==
    \E s \in 1..MaxLoads :
        /\ loads[s].pc = "done"
        /\ loads[s].fresh
        /\ loads'[s].pc = "idle"
        /\ lastOp' = Op("load", FALSE, "ok", "none")

\* C8: when a reload that follows the visibility writes (its class_catalog
\* query ran after the last of them) completes, the events list holds no
\* occurrence of a class that is hidden in the store; the hidden class is
\* still a row of class_catalog.
C8_HiddenExcluded ==
    /\ [][FreshLoadDone => NoHiddenShown']_vars
    /\ [](Len(classes) = Len(MainClasses))

\* C8 witness: a reload has completed with one class of the user hidden in the
\* store and the other visible; the list shows the visible one only.
C8_Witness ==
    /\ lastOp = Op("load", FALSE, "ok", "none")
    /\ classes[1].is_hidden /\ ~classes[2].is_hidden
    /\ NoHiddenShown
    /\ \E i \in 1..Len(events) : events[i].is_fixed /\ events[i].class_id = ClassId2
    /\ \A i \in 1..Len(events) : events[i].class_id # ClassId1

\* the exported event x is built from row c of class_catalog
DocOfClass(x, c) == \E j \in 1..Len(c.days) : x.id = c.id \o <<"-", c.days[j]>>

\* C9: the class query of an export returns only rows of the exporting user
\* that are not hidden at that moment, its events query only rows of the user
\* that exist at that moment, and every event of the document comes from one
\* of these rows.
C9_ExportVisibleOnly ==
    [][/\ lastOp'.kind = "exportClasses" =>
              \A k \in 1..Len(exp'.cls) :
                  /\ exp'.cls[k] \in Range(classes)
                  /\ exp'.cls[k].user_id = User
                  /\ ~exp'.cls[k].is_hidden
       /\ lastOp'.kind = "exportEvents" =>
              \A k \in 1..Len(exp'.evs) :
                  /\ exp'.evs[k] \in Range(flex)
                  /\ exp'.evs[k].user_id = User
       /\ (lastOp'.kind = "export" /\ lastOp'.outcome = "ok") =>
              \A i \in 1..Len(doc') :
                  \/ \E k \in 1..Len(exp.cls) : DocOfClass(doc'[i], exp.cls[k])
                  \/ \E k \in 1..Len(exp.evs) : doc'[i] = ExportPersonalEvent(exp.evs[k])]_vars

\* C9 witness: an export has completed after a class was hidden and the
\* personal event deleted; the document holds the visible class and neither
\* the hidden class nor the deleted event nor anything of the other account.
C9_Witness ==
    /\ lastOp = Op("export", FALSE, "ok", "none")
    /\ classes[1].is_hidden /\ ~classes[2].is_hidden
    /\ \A k \in 1..Len(flex) : flex[k].id # EventId1
    /\ \E i \in 1..Len(doc) : DocOfClass(doc[i], classes[2])
    /\ \A i \in 1..Len(doc) :
           /\ ~DocOfClass(doc[i], classes[1])
           /\ ~DocOfClass(doc[i], classes[3])
           /\ doc[i].id \notin {EventId1, EventId2}

----------------------------------------------------------------------------
(* Specification SpecEscape: escapeText of generateICS on its own, over      *)
(* every text of at most MaxText characters of TextChars.                    *)

\* characters of a free-text field
MaxText == 4

Backslash == "\\"
Semicolon == ";"
Comma == ","
Newline == "\n"
CarriageReturn == "\r"

\* the characters escapeText treats, the letter its newline escape ends in, and
\* an ordinary letter
TextChars == {Backslash, Semicolon, Comma, Newline, "n", "a"}

\* String.prototype.replace with a global one-character pattern
RECURSIVE ReplaceAll(_, _, _)
ReplaceAll(text, ch, by) ==
    IF text = <<>> THEN <<>>
    ELSE (IF Head(text) = ch THEN by ELSE <<Head(text)>>) \o ReplaceAll(Tail(text), ch, by)

\* the four replacements in another order: the backslash doubled last
escapeText_BackslashLast(text) ==
    ReplaceAll(ReplaceAll(ReplaceAll(ReplaceAll(text,
        Semicolon, <<Backslash, Semicolon>>),
        Comma, <<Backslash, Comma>>),
        Newline, <<Backslash, "n">>),
        Backslash, <<Backslash, Backslash>>)

\* escapeText without its last replacement
escapeText_NoNewline(text) ==
    ReplaceAll(ReplaceAll(ReplaceAll(text,
        Backslash, <<Backslash, Backslash>>),
        Semicolon, <<Backslash, Semicolon>>),
        Comma, <<Backslash, Comma>>)

escapeText(text) ==
    ReplaceAll(ReplaceAll(ReplaceAll(ReplaceAll(text,
        Backslash, <<Backslash, Backslash>>),
        Semicolon, <<Backslash, Semicolon>>),
        Comma, <<Backslash, Comma>>),
        Newline, <<Backslash, "n">>)

\* every variable of the page at rest: no store, no call in flight
PageAtRest ==
    /\ classes = <<>> /\ flex = <<>>
    /\ events = <<>> /\ pairs = <<>>
    /\ date = DateMin /\ view = "week" /\ today = DateMin
    /\ loading = FALSE /\ selected = <<>>
    /\ loads = IdleLoads /\ writes = {} /\ exp = IdleExp /\ doc = <<>>
    /\ accepted = {}
    /\ schedule_tracks = MainTracks /\ tracks = <<>>
    /\ pdf_uploads = <<>> /\ upload = IdleUpload

PageUnchanged ==
    UNCHANGED <<classes, flex, events, date, view, loading, selected, loads,
                writes, exp, doc, today, schedule_tracks, tracks, pairs, accepted,
                   pdf_uploads, upload>>

InitEscape ==
    /\ arg \in UNION {[1..n -> TextChars] : n \in 0..MaxText}
    /\ ret = NoRet
    /\ PageAtRest
    /\ lastOp = Op("input", FALSE, "none", "none")

EscapeText ==
    /\ lastOp.kind = "input"
    /\ ret' = Ret(escapeText(arg))
    /\ lastOp' = Op("escapeText", FALSE, "ok", "none")
    /\ UNCHANGED arg
    /\ PageUnchanged

NextEscape == EscapeText

SpecEscape == InitEscape /\ [][NextEscape]_vars

\* what a reader of the interchange format makes of an escaped text, read from
\* the left: \\ is a backslash, \; a semicolon, \, a comma, \n a newline
RECURSIVE unescapeText(_)
unescapeText(t) ==
    IF t = <<>> THEN <<>>
    ELSE IF Head(t) = Backslash /\ Len(t) >= 2
         THEN <<IF t[2] = "n" THEN Newline ELSE t[2]>> \o unescapeText(Tail(Tail(t)))
         ELSE <<Head(t)>> \o unescapeText(Tail(t))

\* read from the left, the text is made of two-character escapes and of
\* characters that need none
RECURSIVE WellEscaped(_)
WellEscaped(t) ==
    \/ t = <<>>
    \/ /\ Head(t) = Backslash
       /\ Len(t) >= 2
       /\ t[2] \in {Backslash, Semicolon, Comma, "n"}
       /\ WellEscaped(Tail(Tail(t)))
    \/ /\ Head(t) \notin {Backslash, Semicolon, Comma, Newline}
       /\ WellEscaped(Tail(t))

\* C11: the escaped text of a label, unescaped by a reader of the format, is
\* the label again, and it holds no raw newline and no semicolon or comma that
\* is not escaped.
C11_LabelRoundTrip ==
    lastOp.kind = "escapeText" =>
        /\ unescapeText(ret.value) = arg
        /\ WellEscaped(ret.value)
        /\ Newline \notin Range(ret.value)

\* a label with a backslash before the letter n, a semicolon and a newline
C11_Witness ==
    /\ lastOp.kind = "escapeText"
    /\ arg = <<Backslash, "n", Semicolon, Newline>>
    /\ ret.value = <<Backslash, Backslash, "n", Backslash, Semicolon, Backslash, "n">>

----------------------------------------------------------------------------
(* Specification SpecICS: generateICS on its own, over every list of at      *)
(* most MaxEvents events of IcsEvents.  A document is a sequence of symbols; *)
(* a symbol is one character, or a word of the format ("BEGIN:VEVENT")       *)
(* standing for its characters, in a title as well as in a line of its own.  *)

\* events in a list handed to generateICS on its own
MaxEvents == 2

\* date.toISOString().replace(/[-:]/g, '').split('.')[0] + 'Z'
formatDate(t) ==
    LET day == t \div MinutesPerDay
        min == t % MinutesPerDay
    IN  <<"2", "0", "2", "3">> \o Dig2(MonthOf(day))
            \o Dig2(day - MonthStartDay(MonthOf(day)) + 1) \o <<"T">>
            \o Dig2(min \div 60) \o Dig2(min % 60) \o <<"0", "0", "Z">>

\* the lines pushed for one event; an empty location or description is falsy
EventLines(event, timestamp) ==
    <<<<"BEGIN:VEVENT">>,
      <<"UID:">> \o event.id \o <<"@calendar-modular.app">>,
      <<"DTSTAMP:">> \o timestamp,
      <<"DTSTART:">> \o formatDate(event.start),
      <<"DTEND:">> \o formatDate(event.end),
      <<"SUMMARY:">> \o escapeText(event.title)>>
    \o (IF event.location # <<>>
        THEN <<<<"LOCATION:">> \o escapeText(event.location)>> ELSE <<>>)
    \o (IF event.description # <<>>
        THEN <<<<"DESCRIPTION:">> \o escapeText(event.description)>> ELSE <<>>)
    \o <<<<"STATUS:CONFIRMED">>, <<"SEQUENCE:0">>, <<"END:VEVENT">>>>

\* the array ics before the join
IcsLines(evs, calendarName, now) ==
    <<<<"BEGIN:VCALENDAR">>,
      <<"VERSION:2.0">>,
      <<"PRODID:-//Calendar Modular//EN">>,
      <<"X-WR-CALNAME:">> \o escapeText(calendarName),
      <<"X-WR-TIMEZONE:America/New_York">>,
      <<"CALSCALE:GREGORIAN">>,
      <<"METHOD:PUBLISH">>>>
    \o Flatten([k \in 1..Len(evs) |-> EventLines(evs[k], formatDate(now))])
    \o <<<<"END:VCALENDAR">>>>

\* Array.prototype.join('\r\n')
RECURSIVE JoinLines(_)
JoinLines(lines) ==
    IF lines = <<>> THEN <<>>
    ELSE IF Len(lines) = 1 THEN lines[1]
    ELSE lines[1] \o <<CarriageReturn, Newline>> \o JoinLines(Tail(lines))

generateICS(evs, calendarName, now) == JoinLines(IcsLines(evs, calendarName, now))

\* free texts: plain, with the characters escapeText treats, and with a line
\* break followed by a word of the format
IcsTitles ==
    {<<"a">>,
     <<"a", Comma, Newline, "b">>,
     <<"a", CarriageReturn, Newline, "END:VEVENT">>,
     <<CarriageReturn, Newline, "BEGIN:VEVENT", CarriageReturn>>}
IcsLocations == {<<>>, <<"a", Semicolon, Backslash>>}
IcsDescriptions == {<<>>, <<"a", Newline, "END:VCALENDAR">>}

\* the objects exportCalendar builds: ids of a personal event and of a class day
IcsEvents ==
    [id : {EventId1, ClassId1 \o <<"-", "M">>},
     title : IcsTitles,
     start : {DetectBase}, end : {DetectBase + 60},
     location : IcsLocations,
     description : IcsDescriptions]

InitICS ==
    /\ arg \in [events : UNION {[1..n -> IcsEvents] : n \in 0..MaxEvents},
                calendarName : {<<"a", Comma, "b">>}]
    /\ ret = NoRet
    /\ PageAtRest
    /\ lastOp = Op("input", FALSE, "none", "none")

GenerateICS ==
    /\ lastOp.kind = "input"
    /\ ret' = Ret(generateICS(arg.events, arg.calendarName, setHours(today, <<8, 0>>)))
    /\ lastOp' = Op("generateICS", FALSE, "ok", "none")
    /\ UNCHANGED arg
    /\ PageUnchanged

NextICS == GenerateICS

SpecICS == InitICS /\ [][NextICS]_vars

\* the positions of a document at which a CRLF line break starts
LineBreaks(text) ==
    {i \in 1..(Len(text) - 1) : text[i] = CarriageReturn /\ text[i + 1] = Newline}

\* the content lines of a document: the text between its CRLF line breaks
ContentLines(text) ==
    LET breaks == LineBreaks(text)
        nth(k) == CHOOSE b \in breaks : Cardinality({c \in breaks : c < b}) = k - 1
    IN  [k \in 1..(Cardinality(breaks) + 1) |->
            SubSeq(text,
                   IF k = 1 THEN 1 ELSE nth(k - 1) + 2,
                   IF k = Cardinality(breaks) + 1 THEN Len(text) ELSE nth(k) - 1)]

\* how many of the lines are the given one
CountLine(lines, line) == Cardinality({i \in 1..Len(lines) : lines[i] = line})

\* no event record opens inside another and none closes that is not open;
\* open tells whether a record is open before the first of the lines
RECURSIVE Nested(_, _)
Nested(lines, open) ==
    IF lines = <<>> THEN ~open
    ELSE IF Head(lines) = <<"BEGIN:VEVENT">> THEN ~open /\ Nested(Tail(lines), TRUE)
    ELSE IF Head(lines) = <<"END:VEVENT">> THEN open /\ Nested(Tail(lines), FALSE)
    ELSE Nested(Tail(lines), open)

\* C12: the document of n events opens with the only BEGIN:VCALENDAR line, ends
\* with the only END:VCALENDAR line, and holds between them n BEGIN:VEVENT and
\* n END:VEVENT lines that alternate, starting with a BEGIN; for n = 0 the
\* wrapper alone.
C12_BlockStructure ==
    lastOp.kind = "generateICS" =>
        LET lines == ContentLines(ret.value)
            n == Len(arg.events)
        IN  /\ lines[1] = <<"BEGIN:VCALENDAR">>
            /\ CountLine(lines, <<"BEGIN:VCALENDAR">>) = 1
            /\ lines[Len(lines)] = <<"END:VCALENDAR">>
            /\ CountLine(lines, <<"END:VCALENDAR">>) = 1
            /\ CountLine(lines, <<"BEGIN:VEVENT">>) = n
            /\ CountLine(lines, <<"END:VEVENT">>) = n
            /\ Nested(lines, FALSE)
            /\ n = 0 => Len(lines) = 8

\* two events whose titles carry a line break before a word of the format, one
\* with a location and a description and one without
C12_Witness ==
    /\ lastOp.kind = "generateICS"
    /\ Len(arg.events) = 2
    /\ arg.events[1].title = <<"a", CarriageReturn, Newline, "END:VEVENT">>
    /\ arg.events[1].location # <<>> /\ arg.events[1].description # <<>>
    /\ arg.events[2].title = <<CarriageReturn, Newline, "BEGIN:VEVENT", CarriageReturn>>
    /\ arg.events[2].location = <<>> /\ arg.events[2].description = <<>>
    /\ Len(ContentLines(ret.value)) = 8 + 11 + 9

----------------------------------------------------------------------------
(* Claims on the intervals the page writes (specification Spec)             *)

\* C13: a flexible block always has start < end: a drop or resize whose
\* interval has start >= end is refused, no write of it is sent, and no row of
\* table events and no occurrence of the events list has start >= end.
C13_InvalidIntervalRejected ==
    /\ \A w \in writes : w.kind \in {"drop", "resize"} => w.start < w.end
    /\ \A i \in 1..Len(flex) : flex[i].start_time < flex[i].end_time
    /\ \A i \in 1..Len(events) : events[i].start < events[i].end

----------------------------------------------------------------------------
(* Specification SpecMove: the page after its first load, and one interval   *)
(* the drag-and-drop library hands to handleEventDrop / handleEventResize,   *)
(* drawn from MoveProposals: the handler, the store's answer, the handler's  *)
(* continuation and the reload of its failure path.                          *)

\* intervals on Monday 2023-01-16: over the two classes, clear of every other
\* occurrence, off the quarter hours, inverted, and empty
MoveProposals ==
    {<<DetectBase + 30, DetectBase + 90>>,
     <<DetectBase + 120, DetectBase + 180>>,
     <<DetectBase + 7, DetectBase + 53>>,
     <<DetectBase + 8, DetectBase + 60>>,
     <<DetectBase + 90, DetectBase + 30>>,
     <<DetectBase, DetectBase>>}

\* the list the first load leaves
LoadedEvents == CalendarEvents(SelectVisibleClasses(User), SelectEvents(User), DateMin, "week")

InitMove ==
    /\ classes = MainClasses
    /\ flex = MainEvents
    /\ events = LoadedEvents
    /\ pairs = overlappingPairs(events)
    /\ date = DateMin /\ view = "week" /\ today = DateMin
    /\ loading = FALSE /\ selected = <<>>
    /\ loads = IdleLoads /\ writes = {} /\ exp = IdleExp /\ doc = <<>>
    /\ accepted = Intervals(MainEvents)
    /\ arg \in MoveProposals
    /\ ret = NoRet
    /\ schedule_tracks = MainTracks /\ tracks = <<>>
    /\ pdf_uploads = <<>> /\ upload = IdleUpload
    /\ lastOp = Op("input", FALSE, "none", "none")

DropProposed ==
    \E i \in 1..Len(events) : HandleMove("drop", events[i], arg[1], arg[2])

ResizeProposed ==
    \E i \in 1..Len(events) : HandleMove("resize", events[i], arg[1], arg[2])

NextMove ==
    \/ DropProposed
    \/ ResizeProposed
    \/ StoreApply
    \/ StoreReject
    \/ MoveDone
    \/ LoadReadClasses
    \/ LoadReadEvents
    \/ LoadDone
    \/ LoadFail

SpecMove == InitMove /\ [][NextMove]_vars

\* a step of handleEventDrop or handleEventResize on a personal event
FlexibleMoveStep == lastOp'.kind \in {"drop", "resize"} /\ ~lastOp'.fixed /\ lastOp' # lastOp

\* the occurrences of the list other than the one with the given id that the
\* interval overlaps
Overlapped(id, start, end) ==
    {i \in 1..Len(events) :
        eventsOverlap([id |-> id, start |-> start, end |-> end], events[i])}

SnapMinutes == 15

\* C15: every interval committed by a drop or resize has its start and its end
\* on a 15-minute boundary: in the write sent, in the row of table events and
\* in the events list.
C15_SnappedToQuarterHour ==
    /\ \A w \in writes : w.kind \in {"drop", "resize"} =>
           w.start % SnapMinutes = 0 /\ w.end % SnapMinutes = 0
    /\ \A i \in 1..Len(flex) :
           flex[i].start_time % SnapMinutes = 0 /\ flex[i].end_time % SnapMinutes = 0
    /\ \A i \in 1..Len(events) :
           ~events[i].is_fixed =>
               events[i].start % SnapMinutes = 0 /\ events[i].end % SnapMinutes = 0

----------------------------------------------------------------------------
(* Specification SpecIntake: a list of candidate classes handed to           *)
(* ManualEntry.handleSave or to processPDF after the extraction, and the     *)
(* insert into class_catalog that follows.                                   *)

\* candidate classes in one save
MaxBatch == 2

\* no value: '' in the form, null or a missing key in the extracted JSON
NoTime == <<>>

IntakeDays == {<<"M", "W">>, <<"T", "X">>, <<>>}
IntakeTimes == {<<9, 0>>, <<10, 15>>}
IntakeCandidates ==
    [days : IntakeDays, start_time : IntakeTimes \cup {NoTime}, end_time : IntakeTimes]

\* the days the form's seven buttons (toggleDay) can leave selected
FormDays(days) == \A i \in 1..Len(days) : dayMap(days[i]) # -1

\* the test ManualEntry.handleSave runs on each class before the insert
\* (the course name is taken as filled in)
SaveAccepts(c) == Len(c.days) # 0 /\ c.start_time # NoTime /\ c.end_time # NoTime

\* the columns class_catalog itself refuses: start_time, end_time TIME NOT NULL
InsertAccepts(row) == row.start_time # NoTime /\ row.end_time # NoTime

\* classesToInsert, with the ids the store gives the rows; track_id is not set
ClassesToInsert(cands) ==
    [k \in 1..Len(cands) |->
        ClassRow(IF k = 1 THEN ClassId1 ELSE ClassId2, User, "null",
                 cands[k].days, cands[k].start_time, cands[k].end_time, FALSE)]

\* one insert statement: every row or none
InsertClasses(rows) ==
    IF \A k \in 1..Len(rows) : InsertAccepts(rows[k]) THEN classes \o rows ELSE classes

InitIntake ==
    /\ arg \in UNION {[1..n -> IntakeCandidates] : n \in 1..MaxBatch}
    /\ ret = NoRet
    /\ PageAtRest
    /\ lastOp = Op("input", FALSE, "none", "none")

\* ManualEntry.handleSave over the form's classes
handleSave ==
    /\ lastOp.kind = "input"
    /\ \A k \in 1..Len(arg) : FormDays(arg[k].days)
    /\ IF \A k \in 1..Len(arg) : SaveAccepts(arg[k])
       THEN classes' = InsertClasses(ClassesToInsert(arg))
       ELSE classes' = classes
    /\ lastOp' = Op("handleSave", TRUE,
                    IF classes' # classes THEN "stored" ELSE "rejected", "none")
    /\ UNCHANGED <<flex, events, date, view, loading, selected, loads,
                   writes, exp, doc, today, arg, ret, schedule_tracks, tracks, pairs, accepted,
                   pdf_uploads, upload>>

\* processPDF from the parsed answer (an array) to the insert
processPDF ==
    /\ lastOp.kind = "input"
    /\ classes' = InsertClasses(ClassesToInsert(arg))
    /\ lastOp' = Op("processPDF", TRUE,
                    IF classes' # classes THEN "stored" ELSE "rejected", "none")
    /\ UNCHANGED <<flex, events, date, view, loading, selected, loads,
                   writes, exp, doc, today, arg, ret, schedule_tracks, tracks, pairs, accepted,
                   pdf_uploads, upload>>

NextIntake == handleSave \/ processPDF

SpecIntake == InitIntake /\ [][NextIntake]_vars

\* minutes after midnight of a TIME value
TimeMinutes(t) == t[1] * 60 + t[2]

\* C16: every row of class_catalog has a non-empty days list made of tags of
\* {U, M, T, W, R, F, S} and a start_time before its end_time.
C16_StoredPatternsValid ==
    \A k \in 1..Len(classes) :
        /\ classes[k].days # <<>>
        /\ \A i \in 1..Len(classes[k].days) : dayMap(classes[k].days[i]) # -1
        /\ TimeMinutes(classes[k].start_time) < TimeMinutes(classes[k].end_time)

----------------------------------------------------------------------------
(* Specification SpecWindow: one loadClasses run over the classes of the     *)
(* page and a personal event before, inside or after the loaded range.       *)

\* days the personal event may lie on: Fri 2023-01-06, Mon 2023-01-16 and
\* Fri 2023-02-10
WindowEventDays == {5, 15, 40}

WindowEvents ==
    {<<EventRow(EventId2, OtherUser, setHours(15, <<9, 0>>), setHours(15, <<10, 0>>)),
       EventRow(EventId1, User, setHours(day, <<9, 0>>), setHours(day, <<10, 0>>))>> :
        day \in WindowEventDays}

InitWindow ==
    /\ classes = MainClasses
    /\ flex \in WindowEvents
    /\ date \in DateMin..DateMax
    /\ view \in Views
    /\ events = <<>> /\ pairs = <<>>
    /\ today = DateMin
    /\ arg = <<>> /\ ret = NoRet
    /\ schedule_tracks = MainTracks /\ tracks = <<>>
    /\ loading = TRUE /\ selected = <<>>
    /\ loads = IdleLoads /\ writes = {} /\ exp = IdleExp /\ doc = <<>>
    /\ accepted = {}
    /\ pdf_uploads = <<>> /\ upload = IdleUpload
    /\ lastOp = Op("input", FALSE, "none", "none")

NextWindow == Expand

SpecWindow == InitWindow /\ [][NextWindow]_vars

\* the stored interval has an instant in common with the days
\* rangeStart .. rangeEnd of the load
InWindow(row, d, v) ==
    /\ row.start_time < (rangeEnd(d, v) + 1) * MinutesPerDay
    /\ row.end_time > rangeStart(d, v) * MinutesPerDay

\* the occurrences of the list made from a row of table events
OccurrencesOf(row) == {i \in 1..Len(events) : ~events[i].is_fixed /\ events[i].id = row.id}

\* C17: after a load, each flexible block of the user has one occurrence in
\* the events list, with its stored interval, if that interval intersects the
\* load's window, and none if it does not.
C17_FlexibleInWindowOnly ==
    lastOp.kind = "load" =>
        \A k \in 1..Len(flex) :
            flex[k].user_id = User =>
                IF InWindow(flex[k], date, view)
                THEN /\ Cardinality(OccurrencesOf(flex[k])) = 1
                     /\ \A i \in OccurrencesOf(flex[k]) :
                            /\ events[i].start = flex[k].start_time
                            /\ events[i].end = flex[k].end_time
                ELSE OccurrencesOf(flex[k]) = {}

----------------------------------------------------------------------------
(* Claims on the catalog's track handlers *)

\* every class of the user's track has the given is_hidden in the rows
TrackHidden(rows, track, hidden) ==
    \A k \in 1..Len(rows) :
        rows[k].user_id = User /\ rows[k].track_id = track => rows[k].is_hidden = hidden

\* the rows outside the user's track are the same in both tables
OtherTracksSame(rows, rows2, track) ==
    /\ Len(rows) = Len(rows2)
    /\ \A k \in 1..Len(rows) :
           ~(rows[k].user_id = User /\ rows[k].track_id = track) => rows2[k] = rows[k]

\* C18: once hideAllInTrack(track) has succeeded every class of the store with
\* that track_id is hidden, and once showAllInTrack(track) has succeeded every
\* such class is visible, whatever the search box holds; the classes of other
\* tracks keep their rows.
C18_WholeTrackToggled ==
    /\ [][lastOp'.kind = "hideAllInTrack" =>
            TrackHidden(classes', "t1", TRUE) /\ OtherTracksSame(classes, classes', "t1")]_vars
    /\ [][lastOp'.kind = "showAllInTrack" =>
            TrackHidden(classes', "t1", FALSE) /\ OtherTracksSame(classes, classes', "t1")]_vars

----------------------------------------------------------------------------
(* Specification SpecCatalog: the Class Catalog page after loadTracks, and   *)
(* deleteTrack calls on the tracks it shows: the delete sent, the store's    *)
(* answer, and the handler's setTracks.                                      *)

\* deleteTrack calls that may be in flight together
MaxDeletes == 2

ClassId4 == <<"a", "b", "-", "2">>
ClassId5 == <<"a", "b", "-", "3">>
ClassId6 == <<"b", "b", "-", "2">>

\* no track: track_id null
NoTrack == "null"

\* two tracks of the user and one of the other account
CatalogTracks == <<TrackRow("t1", User), TrackRow("t3", User), TrackRow("t2", OtherUser)>>

\* classes of the user in both tracks and in none, and classes of the other
\* account in its track and in none
CatalogClasses(hidden) ==
    <<ClassRow(ClassId1, User, "t1", <<"M", "W">>, <<9, 0>>, <<10, 15>>, hidden),
      ClassRow(ClassId2, User, "t1", <<"M">>, <<9, 30>>, <<10, 30>>, FALSE),
      ClassRow(ClassId4, User, "t3", <<"T">>, <<9, 0>>, <<10, 0>>, hidden),
      ClassRow(ClassId5, User, NoTrack, <<"R">>, <<9, 0>>, <<10, 0>>, FALSE),
      ClassRow(ClassId3, OtherUser, "t2", <<"M">>, <<9, 0>>, <<10, 0>>, FALSE),
      ClassRow(ClassId6, OtherUser, NoTrack, <<"M">>, <<9, 0>>, <<10, 0>>, FALSE)>>

\* loadTracks: the user's tracks, each with the user's classes of that
\* track_id, and the pseudo-track 'untracked' when the user has classes with
\* no track
TracksWithClasses(trackRows, classRows, u) ==
    LET OfUser(row) == row.user_id = u
        tracksData == SelectSeq(trackRows, OfUser)
        classesData == SelectSeq(classRows, OfUser)
        Untracked(cls) == cls.track_id = NoTrack
        untrackedClasses == SelectSeq(classesData, Untracked)
    IN  [k \in 1..Len(tracksData) |->
            LET InTrack(cls) == cls.track_id = tracksData[k].id
            IN  [id |-> tracksData[k].id, classes |-> SelectSeq(classesData, InTrack)]]
        \o (IF Len(untrackedClasses) > 0
            THEN <<[id |-> "untracked", classes |-> untrackedClasses]>>
            ELSE <<>>)

InitCatalog ==
    /\ schedule_tracks = CatalogTracks
    /\ classes \in {CatalogClasses(hidden) : hidden \in BOOLEAN}
    /\ tracks = TracksWithClasses(schedule_tracks, classes, User)
    /\ flex = <<>> /\ events = <<>> /\ pairs = <<>>
    /\ date = DateMin /\ view = "week" /\ today = DateMin
    /\ loading = FALSE /\ selected = <<>>
    /\ loads = IdleLoads /\ writes = {} /\ exp = IdleExp /\ doc = <<>>
    /\ accepted = {}
    /\ arg = <<>> /\ ret = NoRet
    /\ pdf_uploads = <<>> /\ upload = IdleUpload
    /\ lastOp = Op("input", FALSE, "none", "none")

\* deleteTrack(track) up to its await, the confirm dialog accepted: the
\* delete is sent; the call keeps the tracks of the render it was made in
deleteTrack ==
    \E k \in 1..Len(tracks) :
        /\ Cardinality(writes) < MaxDeletes
        /\ writes' = writes \cup
               {[kind |-> "deleteTrack", pc |-> "sent", id |-> tracks[k].id, tracks |-> tracks]}
        /\ writes' # writes
        /\ lastOp' = Op("deleteTrack", FALSE, "sent", tracks[k].id)
        /\ UNCHANGED <<classes, flex, events, date, view, loading, selected, loads,
                       exp, doc, today, arg, ret, schedule_tracks, tracks, pairs, accepted,
                   pdf_uploads, upload>>

\* delete from schedule_tracks where id = ..., under the policy "Users can
\* delete their own tracks"
DeleteTrackRow(rows, id, u) ==
    LET Kept(row) == ~(row.id = id /\ row.user_id = u)
    IN  SelectSeq(rows, Kept)

\* class_catalog.track_id REFERENCES schedule_tracks(id) ON DELETE CASCADE:
\* the classes whose track is no longer in the table go with it
Cascade(classRows, trackRows) ==
    LET Kept(cls) == cls.track_id = NoTrack \/ \E k \in 1..Len(trackRows) : trackRows[k].id = cls.track_id
    IN  SelectSeq(classRows, Kept)

\* delete from class_catalog where track_id is null and user_id = u
DeleteUntracked(classRows, u) ==
    LET Kept(cls) == ~(cls.track_id = NoTrack /\ cls.user_id = u)
    IN  SelectSeq(classRows, Kept)

\* the store runs the delete
TrackDeleteApply ==
    \E w \in writes :
        /\ w.kind = "deleteTrack" /\ w.pc = "sent"
        /\ writes' = (writes \ {w}) \cup {[w EXCEPT !.pc = "ok"]}
        /\ IF w.id = "untracked"
           THEN /\ classes' = DeleteUntracked(classes, User)
                /\ UNCHANGED schedule_tracks
           ELSE /\ schedule_tracks' = DeleteTrackRow(schedule_tracks, w.id, User)
                /\ classes' = Cascade(classes, schedule_tracks')
        /\ lastOp' = Op("store", FALSE, "ok", w.id)
        /\ UNCHANGED <<flex, events, date, view, loading, selected, loads,
                       exp, doc, today, arg, ret, tracks, pairs, accepted,
                   pdf_uploads, upload>>

\* the store answers with an error and changes nothing
TrackDeleteReject ==
    \E w \in writes :
        /\ w.kind = "deleteTrack" /\ w.pc = "sent"
        /\ writes' = (writes \ {w}) \cup {[w EXCEPT !.pc = "error"]}
        /\ lastOp' = Op("store", FALSE, "error", w.id)
        /\ UNCHANGED <<classes, flex, events, date, view, loading, selected, loads,
                       exp, doc, today, arg, ret, schedule_tracks, tracks, pairs, accepted,
                   pdf_uploads, upload>>

\* tracks.filter(t => t.id !== track.id), tracks being the call's own
WithoutTrack(trs, id) ==
    LET Kept(t) == t.id # id
    IN  SelectSeq(trs, Kept)

\* deleteTrack after its await: setTracks on success, an alert on an error
deleteTrackDone ==
    \E w \in writes :
        /\ w.kind = "deleteTrack" /\ w.pc \in {"ok", "error"}
        /\ writes' = writes \ {w}
        /\ tracks' = IF w.pc = "ok" THEN WithoutTrack(w.tracks, w.id) ELSE tracks
        /\ lastOp' = Op("deleteTrackDone", FALSE, w.pc, w.id)
        /\ UNCHANGED <<classes, flex, events, date, view, loading, selected, loads,
                       exp, doc, today, arg, ret, schedule_tracks, pairs, accepted,
                   pdf_uploads, upload>>

NextCatalog ==
    \/ deleteTrack
    \/ TrackDeleteApply
    \/ TrackDeleteReject
    \/ deleteTrackDone

SpecCatalog == InitCatalog /\ [][NextCatalog]_vars

\* the ids of the rows
Ids(rows) == {rows[k].id : k \in 1..Len(rows)}

\* the classes the page shows, with the track it shows them under
DisplayedClasses ==
    UNION {{<<tracks[k].id, tracks[k].classes[j].id>> : j \in 1..Len(tracks[k].classes)} :
              k \in 1..Len(tracks)}

\* the track_id a displayed track's classes have in the store
StoredTrack(id) == IF id = "untracked" THEN NoTrack ELSE id

\* the classes of the user in the given track
UserClassesIn(rows, track) ==
    {rows[k].id : k \in {j \in 1..Len(rows) : rows[j].user_id = User /\ rows[j].track_id = track}}

\* C19: once deleteTrack(track) has succeeded, no class with that track_id is
\* left in the store or in the tracks the page shows; the store's delete takes
\* the user's classes of that track (of no track, for 'untracked') and no
\* class of another track.
C19_TrackDeleted ==
    /\ [][lastOp'.kind = "store" /\ lastOp'.outcome = "ok" =>
            /\ UserClassesIn(classes', StoredTrack(lastOp'.origin)) = {}
            /\ Ids(classes) \ Ids(classes') = UserClassesIn(classes, StoredTrack(lastOp'.origin))]_vars
    /\ [](writes = {} =>
            \A d \in DisplayedClasses : d[2] \in UserClassesIn(classes, StoredTrack(d[1])))

----------------------------------------------------------------------------
(* Specification SpecMalformed: one loadClasses run, or one export from      *)
(* handleExport, over a store that holds a malformed class next to a         *)
(* well-formed one and a personal event.                                     *)

\* days of a row whose column is null (days TEXT[] has no NOT NULL); the
\* marker stands for the absent array, not for a list of one tag
NullDays == <<"null">>

\* null, empty, and with a tag outside the table
MalformedDays == {NullDays, <<>>, <<"X">>, <<"M", "X">>}

MalformedStores ==
    UNION {{<<MainClasses[1], ClassRow(ClassId2, User, "t1", days, <<9, 30>>, <<10, 30>>, hidden)>>,
            <<ClassRow(ClassId2, User, "t1", days, <<9, 30>>, <<10, 30>>, hidden), MainClasses[1]>>} :
              days \in MalformedDays, hidden \in BOOLEAN}

InitMalformed ==
    /\ classes \in MalformedStores
    /\ flex = <<MainEvents[1]>>
    /\ date \in DateMin..DateMax
    /\ view \in Views
    /\ today = DateMin
    /\ events = <<>> /\ pairs = <<>>
    /\ loading = TRUE /\ selected = <<>>
    /\ loads = IdleLoads /\ writes = {} /\ exp = IdleExp /\ doc = <<>>
    /\ accepted = {}
    /\ arg = <<>> /\ ret = NoRet
    /\ schedule_tracks = MainTracks /\ tracks = <<>>
    /\ pdf_uploads = <<>> /\ upload = IdleUpload
    /\ lastOp = Op("input", FALSE, "none", "none")

\* classItem.days.forEach on a null days: a TypeError
DaysThrow(cls) == \E k \in 1..Len(cls) : cls[k].days = NullDays

\* loadClasses with its try / catch / finally: the TypeError skips setEvents
LoadOrCatch ==
    /\ lastOp.kind = "input"
    /\ IF DaysThrow(SelectVisibleClasses(User))
       THEN /\ events' = events
            /\ lastOp' = Op("loadClasses", FALSE, "error", "none")
       ELSE /\ events' = CalendarEvents(SelectVisibleClasses(User), SelectEvents(User),
                                        date, view)
            /\ lastOp' = Op("loadClasses", FALSE, "ok", "none")
    /\ loading' = FALSE
    /\ UNCHANGED <<classes, flex, date, view, selected, loads, writes, exp, doc,
                   today, arg, ret, schedule_tracks, tracks, pairs, accepted,
                   pdf_uploads, upload>>

\* handleExport around exportCalendar: the TypeError is rethrown by
\* exportCalendar and ends in handleExport's alert, with no document
ExportOrCatch ==
    /\ lastOp.kind = "input"
    /\ IF DaysThrow(ExportSelectClasses(User))
       THEN /\ doc' = doc
            /\ lastOp' = Op("exportCalendar", FALSE, "error", "none")
       ELSE /\ doc' = ExportEvents(ExportSelectClasses(User), ExportSelectEvents(User), today)
            /\ lastOp' = Op("exportCalendar", FALSE, "ok", "none")
    /\ UNCHANGED <<classes, flex, events, date, view, loading, selected, loads,
                   writes, exp, today, arg, ret, schedule_tracks, tracks, pairs, accepted,
                   pdf_uploads, upload>>

NextMalformed == LoadOrCatch \/ ExportOrCatch

SpecMalformed == InitMalformed /\ [][NextMalformed]_vars

\* a days list that is there, not empty, and made of tags of the table
WellFormedDays(days) ==
    /\ days # NullDays
    /\ days # <<>>
    /\ \A i \in 1..Len(days) : dayMap(days[i]) # -1

\* the visible well-formed classes of the user
WellFormedVisible ==
    {k \in 1..Len(classes) :
        /\ classes[k].user_id = User /\ ~classes[k].is_hidden
        /\ WellFormedDays(classes[k].days)}

\* C20: with a malformed class in the store, loadClasses and the export end
\* without an error, the events list holds every occurrence of every
\* well-formed visible class and every personal event, and the exported
\* document holds an event for every day of every well-formed visible class
\* and every personal event.
C20_MalformedSkipped ==
    /\ lastOp.kind \in {"loadClasses", "exportCalendar"} => lastOp.outcome = "ok"
    /\ lastOp.kind = "loadClasses" =>
           /\ \A k \in WellFormedVisible :
                  Range(ClassOccurrences(classes[k], rangeStart(date, view), rangeEnd(date, view)))
                      \subseteq Range(events)
           /\ \A k \in 1..Len(flex) : FlexibleOccurrence(flex[k]) \in Range(events)
    /\ lastOp.kind = "exportCalendar" =>
           /\ \A k \in WellFormedVisible : \A j \in 1..Len(classes[k].days) :
                  ExportClassEvent(classes[k], classes[k].days[j], today) \in Range(doc)
           /\ \A k \in 1..Len(flex) : ExportPersonalEvent(flex[k]) \in Range(doc)

----------------------------------------------------------------------------
(* Claims comparing the export with the expansion (SpecExport) *)

\* the events of the document made from one class and one day tag
ExportedFor(classItem, day) ==
    {i \in 1..Len(doc) : doc[i].id = classItem.id \o <<"-", day>>}

\* C21: for every tag of a visible class's days, the export emits an event
\* for the tag exactly when the expansion over the seven days after today
\* emits an occurrence for it, and on the date of that occurrence; a tag
\* outside the vocabulary gets an event from neither.
C21_SameTagMapping ==
    lastOp.kind = "export" =>
        \A k \in 1..Len(classes) :
            (classes[k].user_id = User /\ ~classes[k].is_hidden) =>
                \A j \in 1..Len(classes[k].days) :
                    LET day  == classes[k].days[j]
                        occs == DayOccurrences(classes[k], day, today + 1, today + 7)
                    IN  /\ (ExportedFor(classes[k], day) = {}) <=> (occs = <<>>)
                        /\ \A i \in ExportedFor(classes[k], day) :
                               \E n \in 1..Len(occs) :
                                   /\ occs[n].start = doc[i].start
                                   /\ occs[n].end = doc[i].end


-----------------------------------------------------------------------------
(* loadClasses and the conflict scan run twice over one store *)

\* the first run: the two queries, setEvents, and the render's conflict scan
FirstRun ==
    /\ lastOp.kind = "input"
    /\ events' = CalendarEvents(SelectVisibleClasses(User), SelectEvents(User), date, view)
    /\ pairs' = overlappingPairs(events')
    /\ loading' = FALSE
    /\ lastOp' = Op("run1", FALSE, "ok", "none")
    /\ UNCHANGED <<classes, flex, date, view, selected, loads, writes, exp, doc,
                   today, arg, ret, schedule_tracks, tracks, accepted,
                   pdf_uploads, upload>>

\* the second run over the same store, date and view; ret keeps what the
\* first run displayed
SecondRun ==
    /\ lastOp.kind = "run1"
    /\ ret' = Ret([events |-> events, pairs |-> pairs])
    /\ events' = CalendarEvents(SelectVisibleClasses(User), SelectEvents(User), date, view)
    /\ pairs' = overlappingPairs(events')
    /\ loading' = FALSE
    /\ lastOp' = Op("run2", FALSE, "ok", "none")
    /\ UNCHANGED <<classes, flex, date, view, selected, loads, writes, exp, doc,
                   today, arg, schedule_tracks, tracks, accepted,
                   pdf_uploads, upload>>

NextRerun == FirstRun \/ SecondRun

SpecRerun == InitExpand /\ [][NextRerun]_vars

SameBlock(e1, e2) ==
    e1.is_fixed /\ e2.is_fixed /\ e1.class_id = e2.class_id

\* C23: no occurrence is reported as conflicting with itself, and two
\* occurrences expanded from the same fixed block are never reported as
\* conflicting with each other, whatever the stored class (several days, the
\* same tag twice, end before start) and whatever the window: neither the
\* warnings panel's pairs nor getOverlappingEvents names such a pair.
C23_NoSelfConflict ==
    lastOp.kind \in {"run1", "run2"} =>
        /\ \A k \in 1..Len(pairs) :
               /\ pairs[k].event1 # pairs[k].event2
               /\ ~SameBlock(pairs[k].event1, pairs[k].event2)
        /\ \A i \in 1..Len(events) :
               \A e \in Range(getOverlappingEvents(events[i], events)) :
                   e # events[i] /\ ~SameBlock(e, events[i])

\* a class shown with the same tag twice and on several dates, next to
\* conflicts of other occurrences
C23_Witness ==
    /\ lastOp.kind = "run1"
    /\ pairs # <<>>
    /\ \E i, j \in 1..Len(events) :
           i # j /\ events[i] = events[j] /\ events[i].start < events[i].end
    /\ \E i, j \in 1..Len(events) :
           SameBlock(events[i], events[j]) /\ events[i].start # events[j].start


\* rows2 is rows with nothing but is_hidden changed: no row gone or added, and
\* id, owner, track, days and times of every row as they were
OnlyHiddenChanged(rows, rows2) ==
    /\ Len(rows2) = Len(rows)
    /\ \A k \in 1..Len(rows) :
           rows2[k] = [rows[k] EXCEPT !.is_hidden = rows2[k].is_hidden]

\* the is_hidden column of a table
HiddenFlags(rows) == [k \in 1..Len(rows) |-> rows[k].is_hidden]

\* the user's visible rows of a table
VisibleRows(rows, u) ==
    LET Test(c) == c.user_id = u /\ c.is_hidden = FALSE
    IN  SelectSeq(rows, Test)

\* a step in which the store carries out the modal's hide, or the catalog's
\* toggleVisibility writes
HideOrShowStep ==
    \/ lastOp' = Op("store", FALSE, "ok", "hide")
    \/ lastOp'.kind = "toggleVisibility"

\* C24: hiding is soft and reversible.  The write of handleHideClass and the
\* write of toggleVisibility change is_hidden and nothing else: no row of
\* class_catalog is deleted and no days or times are altered.  Once every row
\* hidden since the start has been shown again, the store is the one before
\* the hide, and a reload that read it shows, for its window, the occurrences
\* the store before the hide expands to.
C24_HideIsSoft ==
    /\ [][HideOrShowStep => OnlyHiddenChanged(classes, classes')]_vars
    /\ [](HiddenFlags(classes) = HiddenFlags(MainClasses) => classes = MainClasses)
    /\ [][\A s \in 1..MaxLoads :
              (/\ loads[s].pc = "done" /\ loads[s].fresh /\ loads'[s].pc = "idle"
               /\ lastOp' = Op("load", FALSE, "ok", "none")
               /\ HiddenFlags(classes) = HiddenFlags(MainClasses))
              => events' = CalendarEvents(VisibleRows(MainClasses, User), SelectEvents(User),
                                          loads[s].date, loads[s].view)]_vars

\* toggleVisibility has just shown the last hidden class again, while the
\* calendar still displays the list loaded during the hide, without any
\* occurrence of the first class
C24_Witness ==
    /\ lastOp.kind = "toggleVisibility"
    /\ classes = MainClasses
    /\ ~loading
    /\ events # <<>>
    /\ \A i \in 1..Len(events) : events[i].class_id # ClassId1


\* the UID generateICS writes for an event: `${event.id}@calendar-modular.app`
Uid(event) == event.id \o <<"@calendar-modular.app">>

\* C25: every event record of one exported document has a UID that no other
\* event record of the document has, whatever the visible classes (a days
\* array that repeats a tag included) and the personal events.
C25_UniqueUids ==
    lastOp.kind = "export" =>
        \A i, j \in 1..Len(doc) : i # j => Uid(doc[i]) # Uid(doc[j])


\* no loadClasses call and no write of the page is in flight
PageQuiet ==
    /\ \A s \in 1..MaxLoads : loads[s].pc = "idle"
    /\ writes = {}

\* C26: the displayed occurrences always catch up: once no load (and no write
\* that may start one) is in flight, the events list holds the occurrences
\* the current store expands to over the window of the current date and view.
\* Stated for the moments a load has just completed with success, so that a
\* failed query is not what the property depends on.
C26_DisplayCatchesUp ==
    (PageQuiet /\ lastOp = Op("load", FALSE, "ok", "none")) =>
        Range(events) =
            Range(CalendarEvents(SelectVisibleClasses(User), SelectEvents(User), date, view))

-----------------------------------------------------------------------------
(* Specification SpecTwoMoves: the loaded page with drops and resizes of    *)
(* the personal event proposed while earlier ones are still with the store. *)

\* move and resize requests that may be with the store together
MaxMoves == 2

\* handleEventDrop / handleEventResize up to the await; nothing in the
\* handlers looks at requests already sent
MoveRequest(kind, event, start, end) ==
    /\ CalendarShown
    /\ IF isFixed(event)
       THEN /\ lastOp' = Op(kind, event.is_fixed, "rejected", "none")
            /\ UNCHANGED writes
       ELSE /\ Cardinality(writes) < MaxMoves
            /\ Cardinality(accepted) < MaxStored
            /\ writes' = writes \cup
                   {[kind |-> kind, pc |-> "sent", id |-> event.id,
                     start |-> start, end |-> end, date |-> DateMin, view |-> "week"]}
            /\ lastOp' = Op(kind, event.is_fixed, "sent", "none")
    /\ UNCHANGED <<classes, flex, events, date, view, loading, selected, loads,
                   exp, doc, today, arg, ret, schedule_tracks, tracks, pairs, accepted,
                   pdf_uploads, upload>>

DropRequest ==
    \E i \in 1..Len(events) : MoveRequest("drop", events[i], arg[1], arg[2])

ResizeRequest ==
    \E i \in 1..Len(events) : \E p \in ResizeProposals(events[i]) :
        MoveRequest("resize", events[i], p[1], p[2])

InitTwoMoves ==
    /\ InitMove
    /\ arg[1] < arg[2]

NextTwoMoves ==
    \/ DropRequest
    \/ ResizeRequest
    \/ StoreApply
    \/ StoreReject
    \/ MoveDone
    \/ LoadReadClasses
    \/ LoadReadEvents
    \/ LoadDone
    \/ LoadFail

SpecTwoMoves == InitTwoMoves /\ [][NextTwoMoves]_vars

\* the interval the events list shows for a personal event is the stored one
LocalIsStored ==
    \A i \in 1..Len(events) :
        ~events[i].is_fixed =>
            \E k \in 1..Len(flex) :
                /\ flex[k].id = events[i].id
                /\ flex[k].start_time = events[i].start
                /\ flex[k].end_time = events[i].end

\* C27: move and resize proposals against the same flexible block are
\* serialized by the page: two requests for one event are never in flight
\* together, so once all of them have completed the interval the list shows
\* for the event is the stored one.
C27_MovesSerialized ==
    /\ \A w1, w2 \in writes : w1.id = w2.id => w1 = w2
    /\ PageQuiet => LocalIsStored


-----------------------------------------------------------------------------
(* Specification SpecToggle: the Class Catalog page and clicks on the       *)
(* visibility buttons of the classes it shows.  A click runs                *)
(* toggleVisibility(cls.id, cls.is_hidden) with the cls of the rendered     *)
(* tracks; the page is not disabled while a call is awaited.                *)

\* toggleVisibility calls that may be in flight together
MaxToggles == 2

\* clicks on visibility buttons in one behaviour
MaxClicks == 3

\* the page after loadTracks; arg counts the clicks, ret keeps the table as it
\* was when the page was opened, accepted the calls whose write succeeded
InitToggle ==
    /\ schedule_tracks = CatalogTracks
    /\ classes \in {CatalogClasses(hidden) : hidden \in BOOLEAN}
    /\ tracks = TracksWithClasses(schedule_tracks, classes, User)
    /\ flex = <<>> /\ events = <<>> /\ pairs = <<>>
    /\ date = DateMin /\ view = "week" /\ today = DateMin
    /\ loading = FALSE /\ selected = <<>>
    /\ loads = IdleLoads /\ writes = {} /\ exp = IdleExp /\ doc = <<>>
    /\ accepted = {}
    /\ arg = <<0>> /\ ret = Ret(classes)
    /\ pdf_uploads = <<>> /\ upload = IdleUpload
    /\ lastOp = Op("input", FALSE, "none", "none")

\* onClick={() => toggleVisibility(cls.id, cls.is_hidden)} up to the await:
\* update({is_hidden: !currentStatus}).eq('id', classId) is sent
toggleVisibilityCall ==
    \E k \in 1..Len(tracks) : \E j \in 1..Len(tracks[k].classes) :
        LET cls == tracks[k].classes[j]
        IN  /\ arg[1] < MaxClicks
            /\ Cardinality(writes) < MaxToggles
            /\ writes' = writes \cup
                   {[kind |-> "toggle", pc |-> "sent", id |-> cls.id,
                     hidden |-> ~cls.is_hidden, call |-> arg[1] + 1, data |-> <<>>]}
            /\ arg' = <<arg[1] + 1>>
            /\ lastOp' = Op("toggleVisibility", TRUE, "sent", "catalog")
            /\ UNCHANGED <<classes, flex, events, date, view, loading, selected, loads,
                           exp, doc, today, ret, schedule_tracks, tracks, pairs, accepted,
                   pdf_uploads, upload>>

\* the store carries out the update of a call
ToggleApply ==
    \E w \in writes :
        /\ w.kind = "toggle" /\ w.pc = "sent"
        /\ classes' = SetHidden(classes, {w.id}, w.hidden)
        /\ writes' = (writes \ {w}) \cup {[w EXCEPT !.pc = "ok"]}
        /\ accepted' = accepted \cup {<<w.id, w.call>>}
        /\ lastOp' = Op("store", TRUE, "ok", "toggle")
        /\ UNCHANGED <<flex, events, date, view, loading, selected, loads,
                       exp, doc, today, arg, ret, schedule_tracks, tracks, pairs,
                   pdf_uploads, upload>>

\* the store answers the update with an error; toggleVisibility logs it
ToggleReject ==
    \E w \in writes :
        /\ w.kind = "toggle" /\ w.pc = "sent"
        /\ writes' = writes \ {w}
        /\ lastOp' = Op("store", TRUE, "error", "toggle")
        /\ UNCHANGED <<classes, flex, events, date, view, loading, selected, loads,
                       exp, doc, today, arg, ret, schedule_tracks, tracks, pairs, accepted,
                   pdf_uploads, upload>>

\* await loadTracks() of a call: the queries are answered (schedule_tracks is
\* not written by anything here, so the two queries are one step)
toggleVisibilityLoad ==
    \E w \in writes :
        /\ w.kind = "toggle" /\ w.pc = "ok"
        /\ writes' = (writes \ {w}) \cup
               {[w EXCEPT !.pc = "loaded",
                          !.data = TracksWithClasses(schedule_tracks, classes, User)]}
        /\ lastOp' = Op("loadTracks", FALSE, "ok", "toggle")
        /\ UNCHANGED <<classes, flex, events, date, view, loading, selected, loads,
                       exp, doc, today, arg, ret, schedule_tracks, tracks, pairs, accepted,
                   pdf_uploads, upload>>

\* loadTracks of a call: a query returns an error, the catch block logs it
toggleVisibilityLoadFail ==
    \E w \in writes :
        /\ w.kind = "toggle" /\ w.pc = "ok"
        /\ writes' = writes \ {w}
        /\ lastOp' = Op("loadTracks", FALSE, "failed", "toggle")
        /\ UNCHANGED <<classes, flex, events, date, view, loading, selected, loads,
                       exp, doc, today, arg, ret, schedule_tracks, tracks, pairs, accepted,
                   pdf_uploads, upload>>

\* loadTracks of a call: setTracks(tracksWithClasses)
toggleVisibilityDone ==
    \E w \in writes :
        /\ w.kind = "toggle" /\ w.pc = "loaded"
        /\ tracks' = w.data
        /\ writes' = writes \ {w}
        /\ lastOp' = Op("loadTracks", FALSE, "done", "toggle")
        /\ UNCHANGED <<classes, flex, events, date, view, loading, selected, loads,
                       exp, doc, today, arg, ret, schedule_tracks, pairs, accepted,
                   pdf_uploads, upload>>

NextToggle ==
    \/ toggleVisibilityCall
    \/ ToggleApply
    \/ ToggleReject
    \/ toggleVisibilityLoad
    \/ toggleVisibilityLoadFail
    \/ toggleVisibilityDone

SpecToggle == InitToggle /\ [][NextToggle]_vars

\* the number of toggleVisibility calls on a class whose write succeeded
SuccessfulToggles(id) == Cardinality({a \in accepted : a[1] = id})

\* C28: each click on the visibility toggle flips the stored is_hidden: after
\* n successful toggleVisibility calls on a class its is_hidden differs from
\* the value it had at the start exactly when n is odd, also when a click is
\* issued before the reload of the previous click has finished.
C28_EachClickFlips ==
    \A k \in 1..Len(classes) :
        (classes[k].is_hidden # ret.value[k].is_hidden)
            <=> (SuccessfulToggles(classes[k].id) % 2 = 1)


-----------------------------------------------------------------------------
(* Specification SpecRange: the expansion window on its own, for every date *)
(* of January to April 2023 and every view.                                 *)

\* the last day the calendar arithmetic covers
LastDate == MonthStartDay(Len(MonthLengths)) + MonthLengths[Len(MonthLengths)] - 1

InitRange ==
    /\ date \in 0..LastDate
    /\ view \in Views
    /\ classes = <<>> /\ flex = <<>> /\ events = <<>> /\ pairs = <<>>
    /\ today = DateMin
    /\ arg = <<>> /\ ret = NoRet
    /\ schedule_tracks = MainTracks /\ tracks = <<>>
    /\ loading = TRUE /\ selected = <<>>
    /\ loads = IdleLoads /\ writes = {} /\ exp = IdleExp /\ doc = <<>>
    /\ accepted = {}
    /\ pdf_uploads = <<>> /\ upload = IdleUpload
    /\ lastOp = Op("input", FALSE, "none", "none")

\* loadClasses: rangeStart, rangeEnd and the days eachDayOfInterval walks
ComputeRange ==
    /\ lastOp.kind = "input"
    /\ ret' = Ret([start |-> rangeStart(date, view),
                   end   |-> rangeEnd(date, view),
                   days  |-> eachDayOfInterval(rangeStart(date, view), rangeEnd(date, view))])
    /\ lastOp' = Op("range", FALSE, "ok", "none")
    /\ UNCHANGED <<classes, flex, events, date, view, loading, selected, loads, writes,
                   exp, doc, today, arg, schedule_tracks, tracks, pairs, accepted,
                   pdf_uploads, upload>>

NextRange == ComputeRange

SpecRange == InitRange /\ [][NextRange]_vars

\* C29: for every date and every view (week, day, agenda, month) the window
\* has rangeStart <= rangeEnd and contains the current date; in week view it
\* contains all 7 days of the week of the current date.
C29_WindowContainsDate ==
    lastOp.kind = "range" =>
        /\ ret.value.start <= ret.value.end
        /\ ret.value.start <= date /\ date <= ret.value.end
        /\ date \in Range(ret.value.days)
        /\ view = "week" =>
               \A i \in 0..6 : startOfWeek(date) + i \in Range(ret.value.days)

\* the window of a week view computed for the Saturday of a week that began
\* in the month before
C29_Witness ==
    /\ lastOp.kind = "range"
    /\ view = "week"
    /\ getDay(date) = 6
    /\ startOfWeek(date) < startOfMonth(date)
    /\ Len(ret.value.days) > 7


-----------------------------------------------------------------------------
(* Specification SpecUpload: the PDF upload page and table pdf_uploads.     *)
(* handleUpload runs from a click to its finally block; the button is       *)
(* disabled while uploading or processing, so the attempts of the page      *)
(* follow one another.                                                      *)

\* rows table pdf_uploads may hold
MaxUploads == 3

UploadRow(id, user, status) == [id |-> id, user_id |-> user, processing_status |-> status]

\* the table at the start: empty, or with an upload of the other account
InitUpload ==
    /\ pdf_uploads \in {<<>>, <<UploadRow(1, OtherUser, "completed")>>}
    /\ upload = IdleUpload
    /\ classes = <<>> /\ flex = <<>> /\ events = <<>> /\ pairs = <<>>
    /\ date = DateMin /\ view = "week" /\ today = DateMin
    /\ loading = FALSE /\ selected = <<>>
    /\ loads = IdleLoads /\ writes = {} /\ exp = IdleExp /\ doc = <<>>
    /\ accepted = {}
    /\ arg = <<>> /\ ret = NoRet
    /\ schedule_tracks = MainTracks /\ tracks = <<>>
    /\ lastOp = Op("input", FALSE, "none", "none")

\* what an action of the upload page leaves alone
UploadFrame ==
    UNCHANGED <<classes, flex, events, date, view, loading, selected, loads, writes,
                exp, doc, today, arg, ret, schedule_tracks, tracks, pairs, accepted>>

\* handleUpload up to the first await: both flags set, the file sent to storage
handleUpload ==
    /\ upload.pc = "idle"
    /\ ~upload.uploading /\ ~upload.processing
    /\ Len(pdf_uploads) < MaxUploads
    /\ upload' = [pc |-> "storage", uploading |-> TRUE, processing |-> TRUE, own |-> 0]
    /\ lastOp' = Op("handleUpload", FALSE, "sent", "none")
    /\ UNCHANGED pdf_uploads
    /\ UploadFrame

\* storage.upload is answered: on success the insert is sent, an error is thrown
UploadStored ==
    \E ok \in BOOLEAN :
        /\ upload.pc = "storage"
        /\ upload' = [upload EXCEPT !.pc = IF ok THEN "insert" ELSE "catch"]
        /\ lastOp' = Op("storage", FALSE, IF ok THEN "ok" ELSE "error", "none")
        /\ UNCHANGED pdf_uploads
        /\ UploadFrame

\* insert into pdf_uploads (..., processing_status: 'processing'), select, single
InsertUpload(rows, u) ==
    Append(rows, UploadRow(Len(rows) + 1, u, "processing"))

\* the insert is carried out and uploadRecord returned
UploadInserted ==
    /\ upload.pc = "insert"
    /\ pdf_uploads' = InsertUpload(pdf_uploads, User)
    /\ upload' = [upload EXCEPT !.pc = "process", !.own = Len(pdf_uploads')]
    /\ lastOp' = Op("insert", FALSE, "ok", "none")
    /\ UploadFrame

\* the insert returns dbError, which is thrown
UploadInsertFailed ==
    /\ upload.pc = "insert"
    /\ upload' = [upload EXCEPT !.pc = "catch"]
    /\ lastOp' = Op("insert", FALSE, "error", "none")
    /\ UNCHANGED pdf_uploads
    /\ UploadFrame

\* processPDF returns the extracted classes, or throws
UploadProcessed ==
    \E ok \in BOOLEAN :
        /\ upload.pc = "process"
        /\ upload' = [upload EXCEPT !.pc = IF ok THEN "complete" ELSE "catch"]
        /\ lastOp' = Op("processPDF", FALSE, IF ok THEN "ok" ELSE "error", "none")
        /\ UNCHANGED pdf_uploads
        /\ UploadFrame

\* update pdf_uploads set processing_status = status where id = id
SetStatus(rows, id, status) ==
    [k \in 1..Len(rows) |->
        IF rows[k].id = id THEN [rows[k] EXCEPT !.processing_status = status] ELSE rows[k]]

\* the update to 'completed' of uploadRecord.id; its error is not looked at,
\* and navigate('/catalog') follows either way
UploadCompleted ==
    \E ok \in BOOLEAN :
        /\ upload.pc = "complete"
        /\ pdf_uploads' = IF ok THEN SetStatus(pdf_uploads, upload.own, "completed")
                          ELSE pdf_uploads
        /\ upload' = [upload EXCEPT !.pc = "finally"]
        /\ lastOp' = Op("complete", FALSE, IF ok THEN "ok" ELSE "error", "none")
        /\ UploadFrame

\* the ids the catch block's update reaches: .eq('user_id', user.id)
\* .order('created_at', {ascending: false}).limit(1), the user's newest row
LatestOf(rows, u) ==
    LET mine == {k \in 1..Len(rows) : rows[k].user_id = u}
    IN  {rows[k].id : k \in {j \in mine : \A i \in mine : i <= j}}

\* update pdf_uploads set processing_status = 'failed' for the rows reached
MarkFailed(rows, ids) ==
    [k \in 1..Len(rows) |->
        IF rows[k].id \in ids THEN [rows[k] EXCEPT !.processing_status = "failed"]
        ELSE rows[k]]

\* the catch block: setError, then the update to 'failed', carried out by the
\* store or answered with an error nobody looks at
UploadCaught ==
    \E ok \in BOOLEAN :
        /\ upload.pc = "catch"
        /\ pdf_uploads' = IF ok THEN MarkFailed(pdf_uploads, LatestOf(pdf_uploads, User))
                          ELSE pdf_uploads
        /\ upload' = [upload EXCEPT !.pc = "finally"]
        /\ lastOp' = Op("catch", FALSE, IF ok THEN "ok" ELSE "error", "none")
        /\ UploadFrame

\* finally: setUploading(false), setProcessing(false)
UploadFinally ==
    /\ upload.pc = "finally"
    /\ upload' = [pc |-> "idle", uploading |-> FALSE, processing |-> FALSE, own |-> 0]
    /\ lastOp' = Op("finally", FALSE, "ok", "none")
    /\ UNCHANGED pdf_uploads
    /\ UploadFrame

NextUpload ==
    \/ handleUpload
    \/ UploadStored
    \/ UploadInserted
    \/ UploadInsertFailed
    \/ UploadProcessed
    \/ UploadCompleted
    \/ UploadCaught
    \/ UploadFinally

SpecUpload == InitUpload /\ [][NextUpload]_vars

\* C30: a pdf_uploads record is created with 'processing' and afterwards only
\* moves to 'completed' or 'failed'; a failing handleUpload attempt, also one
\* that fails before its own record exists, never changes the status of a
\* record created by another attempt; 'completed' never becomes 'failed';
\* uploading and processing are both false once the attempt has ended.
C30_StatusPerAttempt ==
    /\ [][/\ Len(pdf_uploads') >= Len(pdf_uploads)
          /\ \A k \in 1..Len(pdf_uploads') :
                 IF k > Len(pdf_uploads)
                 THEN pdf_uploads'[k].processing_status = "processing"
                 ELSE \/ pdf_uploads'[k] = pdf_uploads[k]
                      \/ /\ pdf_uploads[k].processing_status = "processing"
                         /\ pdf_uploads'[k].processing_status \in {"completed", "failed"}
                         /\ pdf_uploads[k].id = upload.own]_vars
    /\ [](upload.pc = "idle" => ~upload.uploading /\ ~upload.processing)

=============================================================================
